---- MODULE Spec2Model ----
(***************************************************************************)
(* Model of storage/innobase/os/os0enc.cc: the InnoDB/Percona encryption   *)
(* core (master key manager, encryption info codec, page cryptor).         *)
(*                                                                         *)
(* Units.  The info blob is modelled as a sequence of cells.  One cell is  *)
(* one 4-byte word of the blob scaled so that one cipher block, one key,   *)
(* one iv, one uuid and the magic each occupy one cell.  A cell holds a    *)
(* number (the magic cell holds a string); 0 is the all-zero content that  *)
(* memset leaves behind.  A 4-byte field written by mach_write_to_4 and    *)
(* read by mach_read_from_4 is one cell holding the number; every number   *)
(* of the model is far below 2^32.                                         *)
(***************************************************************************)
EXTENDS Integers, Sequences, FiniteSets, TLC

(* ------------------------------ bounds -------------------------------- *)
\* number of threads that call into the master key manager
NThreads == 2
\* number of distinct non-empty server uuid values
NUuids == 2
\* cap on s_master_key_id reached by rotation
MaxKeyId == 2
\* number of distinct key materials the keyring can generate
NKeyVals == 2
\* number of values of one cell of {key, iv} material
CellMod == 4
\* number of values of the modelled CRC32
CrcMod == 3
\* number of distinct tablespace keys handed to the codec
NTsKeys == 2

(* ------------------------- program constants -------------------------- *)
DEFAULT_MASTER_KEY_ID == 0
\* the key material of the hard-coded DEFAULT_MASTER_KEY string
DEFAULT_MASTER_KEY == 1
MASTER_KEY_PREFIX == "INNODBKey"
\* the three magics are distinct 3-byte strings; only their identity matters
KEY_MAGIC_V1 == "KEY_MAGIC_V1"
KEY_MAGIC_V2 == "KEY_MAGIC_V2"
KEY_MAGIC_V3 == "KEY_MAGIC_V3"
\* a null byte pointer
nullptr == 0
\* the all-zero uuid buffer (strlen == 0)
EmptyUuid == 0
\* server_id of this instance (used by the 5.7.11 key name)
server_id == 1
\* blob layout, in cells
MAGIC_SIZE == 1
SIZEOF_UINT32 == 1
SERVER_UUID_LEN == 1
KEY_LEN == 1
INFO_SIZE == MAGIC_SIZE + 2 * SIZEOF_UINT32 + SERVER_UUID_LEN + 2 * KEY_LEN + SIZEOF_UINT32

Threads == 1 .. NThreads
ServerUuids == 1 .. NUuids
Uuids == {EmptyUuid} \cup ServerUuids
\* key materials a keyring can hold (never the null pointer)
KeyVals == (DEFAULT_MASTER_KEY + 1) .. (DEFAULT_MASTER_KEY + NKeyVals)
Cells == 0 .. (CellMod - 1)
NoThread == 0

VARIABLES
  s_master_key_id,  \* Encryption::s_master_key_id
  s_uuid,           \* Encryption::s_uuid
  server_uuid,      \* the server's uuid (mysqld.h)
  keyring,          \* the keyring: key name -> key material
  keyring_up,       \* whether the keyring plugin answers
  recv_on,          \* recv_recovery_is_on()
  mutex,            \* owner of master_key_id_mutex, NoThread when free
  th,               \* per thread: position and locals of the running call
  n_rotated,        \* number of create_master_key calls that returned a key
  pre,              \* history: s_master_key_id and s_uuid when the latest
                    \* decode_encryption_info call began, until a caller
                    \* takes its results
  pg,               \* the page and log cryptor: the page or the log
                    \* buffer in hand, its buffers and the encryption
                    \* context
  checked           \* the static flag of Encryption::check_keyring

vars == <<s_master_key_id, s_uuid, server_uuid, keyring, keyring_up, recv_on,
          mutex, th, n_rotated, pre, pg, checked>>

(* ----------------------------- key names ------------------------------ *)
\* snprintf(key_name, ..., "%s-%s-" UINT32PF, MASTER_KEY_PREFIX, uuid, id)
UuidKeyName(uuid, id) == <<MASTER_KEY_PREFIX, <<"%s", uuid>>, id>>

\* snprintf(key_name, ..., "%s-%lu-" UINT32PF, MASTER_KEY_PREFIX, server_id, id)
LegacyKeyName(id) == <<MASTER_KEY_PREFIX, <<"%lu", server_id>>, id>>

(* ------------------------------ keyring ------------------------------- *)
\* my_key_fetch: the key material, or nullptr when the keyring does not
\* answer or holds no such key
my_key_fetch(kr, up, name) ==
  IF up /\ name \in DOMAIN kr THEN kr[name] ELSE nullptr

\* a keyring whose generate replaces the key stored under a taken name
my_key_generate_overwrite(kr, up, name, v) ==
  IF up
  THEN [n \in DOMAIN kr \cup {name} |-> IF n = name THEN v ELSE kr[n]]
  ELSE kr

\* my_key_generate: stores fresh material v unless the name is taken or the
\* keyring does not answer
my_key_generate(kr, up, name, v) ==
  IF up /\ name \notin DOMAIN kr
  THEN [n \in DOMAIN kr \cup {name} |-> IF n = name THEN v ELSE kr[n]]
  ELSE kr

(* --------------------------- thread records --------------------------- *)
\* the content of a caller's key / iv buffer before a decode writes it
Untouched == CellMod

Idle ==
  [pc |-> "idle", op |-> "none", key_id_locked |-> FALSE, tmp |-> 0,
   master_key_id |-> DEFAULT_MASTER_KEY_ID, master_key |-> nullptr,
   key_name |-> <<>>, srv_uuid |-> EmptyUuid, decrypt_key |-> FALSE,
   key |-> Untouched, iv |-> Untouched, ret |-> "none", why |-> "none",
   kr_ok |-> TRUE, src |-> "none",
   blob |-> <<>>, in_key |-> 0, in_iv |-> 0, is_boot |-> FALSE,
   encrypt_key |-> FALSE]

\* a call starts
Begin(t, op, pc) == [Idle EXCEPT !.pc = pc, !.op = op, !.kr_ok = keyring_up]

SetTh(t, r) == th' = [th EXCEPT ![t] = r]


\* the page cryptor has no page in hand
PgIdle == [pc |-> "idle"]

(* ------------------------------- Init --------------------------------- *)
\* material of a master key that an earlier run of the server left behind
PriorMaterial(i) == DEFAULT_MASTER_KEY + 1 + (i % NKeyVals)

\* keyrings an earlier run may have left: nothing, the 5.7.11 keys
\* INNODBKey-<server_id>-1..j, or the keys INNODBKey-<uuid>-1..j
PriorKeyrings ==
  {<<>>}
  \cup {[n \in {LegacyKeyName(i) : i \in 1 .. j} |-> PriorMaterial(n[3])] :
          j \in 1 .. MaxKeyId}
  \cup {[n \in {UuidKeyName(u, i) : i \in 1 .. j} |-> PriorMaterial(n[3])] :
          u \in ServerUuids, j \in 1 .. MaxKeyId}

Init ==
  /\ s_master_key_id = DEFAULT_MASTER_KEY_ID
  /\ s_uuid = EmptyUuid
  /\ server_uuid \in Uuids
  /\ keyring \in PriorKeyrings
  /\ keyring_up = TRUE
  /\ recv_on \in BOOLEAN
  /\ mutex = NoThread
  /\ th = [t \in Threads |-> Idle]
  /\ n_rotated = 0
  /\ pre = [id |-> DEFAULT_MASTER_KEY_ID, uuid |-> EmptyUuid]
  /\ pg = PgIdle
  /\ checked = FALSE

(* ------------- get_master_key(&master_key_id, &master_key) ------------ *)
\* where get_master_key returns to
AfterGetMasterKey(r) ==
  IF r.op = "fill"
  THEN IF r.master_key = nullptr
       THEN [r EXCEPT !.pc = "done", !.ret = "false", !.why = "no_master_key"]
       ELSE [r EXCEPT !.pc = "fill_write"]
  ELSE [r EXCEPT !.pc = "done",
                 !.ret = IF r.master_key = nullptr THEN "false" ELSE "true"]

\* a thread calls get_master_key(&id, &key) directly
GetBegin(t) ==
  /\ th[t].pc = "idle"
  /\ server_uuid # EmptyUuid
  /\ SetTh(t, Begin(t, "get", "gmk_check"))
  /\ UNCHANGED <<s_master_key_id, s_uuid, server_uuid, keyring, keyring_up,
                 recv_on, mutex, n_rotated, pre, pg, checked>>

\* line 505: the unlocked test of s_master_key_id
GmkCheck(t) ==
  /\ th[t].pc = "gmk_check"
  /\ SetTh(t, [th[t] EXCEPT !.pc = IF s_master_key_id = DEFAULT_MASTER_KEY_ID
                                   THEN "gmk_lock" ELSE "gmk_recheck"])
  /\ UNCHANGED <<s_master_key_id, s_uuid, server_uuid, keyring, keyring_up,
                 recv_on, mutex, n_rotated, pre, pg, checked>>

\* line 507: mutex_enter(&master_key_id_mutex)
GmkLock(t) ==
  /\ th[t].pc = "gmk_lock"
  /\ mutex = NoThread
  /\ mutex' = t
  /\ SetTh(t, [th[t] EXCEPT !.pc = "gmk_recheck", !.key_id_locked = TRUE])
  /\ UNCHANGED <<s_master_key_id, s_uuid, server_uuid, keyring, keyring_up,
                 recv_on, n_rotated, pre, pg, checked>>

\* get_master_key without the second test under the mutex: a caller that
\* took the mutex creates the key whatever the id has become
GmkRecheck_no_recheck(t) ==
  /\ th[t].pc = "gmk_recheck"
  /\ SetTh(t, IF th[t].key_id_locked
              THEN [th[t] EXCEPT !.pc = "gmk_set_uuid"]
              ELSE [th[t] EXCEPT !.pc = "gmk_fetch_cur",
                                 !.master_key_id = s_master_key_id])
  /\ UNCHANGED <<s_master_key_id, s_uuid, server_uuid, keyring, keyring_up,
                 recv_on, mutex, n_rotated, pre, pg, checked>>

\* lines 515 and 549: the second test, and *master_key_id = s_master_key_id
GmkRecheck(t) ==
  /\ th[t].pc = "gmk_recheck"
  /\ SetTh(t, IF s_master_key_id = DEFAULT_MASTER_KEY_ID
              THEN [th[t] EXCEPT !.pc = "gmk_set_uuid"]
              ELSE [th[t] EXCEPT !.pc = "gmk_fetch_cur",
                                 !.master_key_id = s_master_key_id])
  /\ UNCHANGED <<s_master_key_id, s_uuid, server_uuid, keyring, keyring_up,
                 recv_on, mutex, n_rotated, pre, pg, checked>>

\* lines 516-521: memset(s_uuid, 0), memcpy(s_uuid, server_uuid)
GmkSetUuid(t) ==
  /\ th[t].pc = "gmk_set_uuid"
  /\ s_uuid' = server_uuid
  /\ SetTh(t, [th[t] EXCEPT !.pc = "gmk_generate"])
  /\ UNCHANGED <<s_master_key_id, server_uuid, keyring, keyring_up, recv_on,
                 mutex, n_rotated, pre, pg, checked>>

\* lines 524-528: the name "<prefix>-<s_uuid>-1" and my_key_generate
GmkGenerate(t) ==
  /\ th[t].pc = "gmk_generate"
  /\ \E v \in KeyVals :
       keyring' = my_key_generate(keyring, keyring_up, UuidKeyName(s_uuid, 1), v)
  /\ SetTh(t, [th[t] EXCEPT !.pc = "gmk_fetch_new",
                            !.key_name = UuidKeyName(s_uuid, 1)])
  /\ UNCHANGED <<s_master_key_id, s_uuid, server_uuid, keyring_up, recv_on,
                 mutex, n_rotated, pre, pg, checked>>

\* lines 531-534: my_key_fetch of the new key
GmkFetchNew(t) ==
  /\ th[t].pc = "gmk_fetch_new"
  /\ LET k == my_key_fetch(keyring, keyring_up, th[t].key_name)
     IN SetTh(t, [th[t] EXCEPT !.master_key = k,
                               !.kr_ok = @ /\ keyring_up,
                               !.pc = IF k # nullptr THEN "gmk_inc_read"
                                      ELSE "gmk_exit"])
  /\ UNCHANGED <<s_master_key_id, s_uuid, server_uuid, keyring, keyring_up,
                 recv_on, mutex, n_rotated, pre, pg, checked>>

\* line 535: ++s_master_key_id, the load
GmkIncRead(t) ==
  /\ th[t].pc = "gmk_inc_read"
  /\ SetTh(t, [th[t] EXCEPT !.pc = "gmk_inc_write", !.tmp = s_master_key_id])
  /\ UNCHANGED <<s_master_key_id, s_uuid, server_uuid, keyring, keyring_up,
                 recv_on, mutex, n_rotated, pre, pg, checked>>

\* lines 535-536: ++s_master_key_id, the store; *master_key_id = s_master_key_id
GmkIncWrite(t) ==
  /\ th[t].pc = "gmk_inc_write"
  /\ s_master_key_id' = th[t].tmp + 1
  /\ SetTh(t, [th[t] EXCEPT !.pc = "gmk_exit", !.why = "created",
                            !.master_key_id = th[t].tmp + 1])
  /\ UNCHANGED <<s_uuid, server_uuid, keyring, keyring_up, recv_on, mutex,
                 n_rotated, pre, pg, checked>>

\* lines 551-571: fetch "<prefix>-<s_uuid>-<id>", else "<prefix>-<server_id>-<id>"
GmkFetchCur(t) ==
  /\ th[t].pc = "gmk_fetch_cur"
  /\ LET k1 == my_key_fetch(keyring, keyring_up,
                            UuidKeyName(s_uuid, th[t].master_key_id))
         k2 == my_key_fetch(keyring, keyring_up,
                            LegacyKeyName(th[t].master_key_id))
     IN SetTh(t, [th[t] EXCEPT !.master_key = IF k1 # nullptr THEN k1 ELSE k2,
                               !.kr_ok = @ /\ keyring_up,
                               !.key_name = IF k1 # nullptr
                                            THEN UuidKeyName(s_uuid, th[t].master_key_id)
                                            ELSE LegacyKeyName(th[t].master_key_id),
                               !.pc = "gmk_exit"])
  /\ UNCHANGED <<s_master_key_id, s_uuid, server_uuid, keyring, keyring_up,
                 recv_on, mutex, n_rotated, pre, pg, checked>>

\* lines 585-597: mutex_exit if key_id_locked, and return
GmkExit(t) ==
  /\ th[t].pc = "gmk_exit"
  /\ mutex' = IF th[t].key_id_locked THEN NoThread ELSE mutex
  /\ SetTh(t, AfterGetMasterKey([th[t] EXCEPT !.key_id_locked = FALSE,
                                            !.key_name = <<>>, !.tmp = 0]))
  /\ UNCHANGED <<s_master_key_id, s_uuid, server_uuid, keyring, keyring_up,
                 recv_on, n_rotated, pre, pg, checked>>

get_master_key(t) ==
  \/ GmkCheck(t) \/ GmkLock(t) \/ GmkRecheck(t) \/ GmkSetUuid(t)
  \/ GmkGenerate(t) \/ GmkFetchNew(t) \/ GmkIncRead(t) \/ GmkIncWrite(t)
  \/ GmkFetchCur(t) \/ GmkExit(t)

(* ------------------- rotation: create_master_key ---------------------- *)
\* ALTER INSTANCE ROTATE INNODB MASTER KEY starts
RotateBegin(t) ==
  /\ th[t].pc = "idle"
  /\ server_uuid # EmptyUuid
  /\ s_master_key_id < MaxKeyId
  /\ n_rotated < MaxKeyId
  /\ SetTh(t, Begin(t, "rotate", "rot_lock"))
  /\ UNCHANGED <<s_master_key_id, s_uuid, server_uuid, keyring, keyring_up,
                 recv_on, mutex, n_rotated, pre, pg, checked>>

\* the rotation driver serialises rotations on master_key_id_mutex
RotLock(t) ==
  /\ th[t].pc = "rot_lock"
  /\ mutex = NoThread
  /\ mutex' = t
  /\ SetTh(t, [th[t] EXCEPT !.pc = "cmk_set_uuid"])
  /\ UNCHANGED <<s_master_key_id, s_uuid, server_uuid, keyring, keyring_up,
                 recv_on, n_rotated, pre, pg, checked>>

\* lines 412-414: s_uuid follows server_uuid
CmkSetUuid(t) ==
  /\ th[t].pc = "cmk_set_uuid"
  /\ s_uuid' = IF s_uuid # server_uuid THEN server_uuid ELSE s_uuid
  /\ SetTh(t, [th[t] EXCEPT !.pc = "cmk_generate"])
  /\ UNCHANGED <<s_master_key_id, server_uuid, keyring, keyring_up, recv_on,
                 mutex, n_rotated, pre, pg, checked>>

\* lines 417-421: the name "<prefix>-<s_uuid>-<s_master_key_id + 1>", generate
CmkGenerate(t) ==
  /\ th[t].pc = "cmk_generate"
  /\ LET name == UuidKeyName(s_uuid, s_master_key_id + 1)
     IN /\ \E v \in KeyVals :
             keyring' = my_key_generate(keyring, keyring_up, name, v)
        /\ SetTh(t, [th[t] EXCEPT !.pc = "cmk_fetch", !.key_name = name])
  /\ UNCHANGED <<s_master_key_id, s_uuid, server_uuid, keyring_up, recv_on,
                 mutex, n_rotated, pre, pg, checked>>

\* lines 424-433: my_key_fetch of the new key
CmkFetch(t) ==
  /\ th[t].pc = "cmk_fetch"
  /\ LET k == my_key_fetch(keyring, keyring_up, th[t].key_name)
     IN SetTh(t, [th[t] EXCEPT !.master_key = k,
                               !.kr_ok = @ /\ keyring_up,
                               !.pc = IF k # nullptr THEN "cmk_inc_read"
                                      ELSE "rot_unlock"])
  /\ UNCHANGED <<s_master_key_id, s_uuid, server_uuid, keyring, keyring_up,
                 recv_on, mutex, n_rotated, pre, pg, checked>>

\* line 434: ++s_master_key_id, the load
CmkIncRead(t) ==
  /\ th[t].pc = "cmk_inc_read"
  /\ SetTh(t, [th[t] EXCEPT !.pc = "cmk_inc_write", !.tmp = s_master_key_id])
  /\ UNCHANGED <<s_master_key_id, s_uuid, server_uuid, keyring, keyring_up,
                 recv_on, mutex, n_rotated, pre, pg, checked>>

\* create_master_key that stores the id it loaded, without the increment
CmkIncWrite_no_increment(t) ==
  /\ th[t].pc = "cmk_inc_write"
  /\ s_master_key_id' = th[t].tmp
  /\ SetTh(t, [th[t] EXCEPT !.pc = "rot_unlock"])
  /\ UNCHANGED <<s_uuid, server_uuid, keyring, keyring_up, recv_on, mutex,
                 n_rotated, pre, pg, checked>>

\* line 434: ++s_master_key_id, the store
CmkIncWrite(t) ==
  /\ th[t].pc = "cmk_inc_write"
  /\ s_master_key_id' = th[t].tmp + 1
  /\ SetTh(t, [th[t] EXCEPT !.pc = "rot_unlock"])
  /\ UNCHANGED <<s_uuid, server_uuid, keyring, keyring_up, recv_on, mutex,
                 n_rotated, pre, pg, checked>>

\* the rotation driver releases the mutex; the rotation succeeded when
\* create_master_key handed back a key
RotUnlock(t) ==
  /\ th[t].pc = "rot_unlock"
  /\ mutex' = NoThread
  /\ n_rotated' = IF th[t].master_key # nullptr THEN n_rotated + 1 ELSE n_rotated
  /\ SetTh(t, [th[t] EXCEPT !.pc = "done", !.key_name = <<>>, !.tmp = 0,
                            !.ret = IF th[t].master_key # nullptr
                                    THEN "true" ELSE "false"])
  /\ UNCHANGED <<s_master_key_id, s_uuid, server_uuid, keyring, keyring_up,
                 recv_on, pre, pg, checked>>

create_master_key(t) ==
  \/ CmkSetUuid(t) \/ CmkGenerate(t) \/ CmkFetch(t) \/ CmkIncRead(t)
  \/ CmkIncWrite(t)

Rotate(t) == RotateBegin(t) \/ RotLock(t) \/ create_master_key(t) \/ RotUnlock(t)

(* --------------------------- check_keyring ---------------------------- *)
\* strncpy(key_name, DEFAULT_MASTER_KEY, sizeof(key_name)), line 1793: the
\* dummy key is named by the default master key string
DummyKeyName == <<"DefaultMasterKey">>

\* my_key_remove: the keyring without the key, when it answers
my_key_remove(kr, up, name) ==
  IF up THEN [n \in DOMAIN kr \ {name} |-> kr[n]] ELSE kr

\* the return code of my_key_fetch: 0 when the keyring answers
my_key_fetch_ret(up) == IF up THEN 0 ELSE 1

\* a thread calls check_keyring()
CheckBegin(t) ==
  /\ th[t].pc = "idle"
  /\ SetTh(t, Begin(t, "check", "chk_test"))
  /\ UNCHANGED <<s_master_key_id, s_uuid, server_uuid, keyring, keyring_up,
                 recv_on, mutex, n_rotated, pre, pg, checked>>

\* check_keyring without the static flag: every call at id 0 probes
ChkTest_no_flag(t) ==
  /\ th[t].pc = "chk_test"
  /\ SetTh(t, IF s_master_key_id = DEFAULT_MASTER_KEY_ID
              THEN [th[t] EXCEPT !.pc = "chk_generate"]
              ELSE [th[t] EXCEPT !.pc = "gmk_check"])
  /\ UNCHANGED <<s_master_key_id, s_uuid, server_uuid, keyring, keyring_up,
                 recv_on, mutex, n_rotated, pre, pg, checked>>

\* lines 1779-1783 and 1817-1820: the test of s_master_key_id, the test of
\* the static flag, and the call of get_master_key(&id, &key)
ChkTest(t) ==
  /\ th[t].pc = "chk_test"
  /\ SetTh(t, IF s_master_key_id = DEFAULT_MASTER_KEY_ID
              THEN IF checked
                   THEN [th[t] EXCEPT !.pc = "done", !.ret = "true",
                                      !.why = "checked"]
                   ELSE [th[t] EXCEPT !.pc = "chk_generate"]
              ELSE [th[t] EXCEPT !.pc = "gmk_check"])
  /\ UNCHANGED <<s_master_key_id, s_uuid, server_uuid, keyring, keyring_up,
                 recv_on, mutex, n_rotated, pre, pg, checked>>

\* lines 1791-1796: my_key_generate of the dummy key
ChkGenerate(t) ==
  /\ th[t].pc = "chk_generate"
  /\ \E v \in KeyVals :
       keyring' = my_key_generate(keyring, keyring_up, DummyKeyName, v)
  /\ SetTh(t, [th[t] EXCEPT !.pc = "chk_fetch", !.key_name = DummyKeyName,
                            !.kr_ok = @ /\ keyring_up])
  /\ UNCHANGED <<s_master_key_id, s_uuid, server_uuid, keyring_up, recv_on,
                 mutex, n_rotated, pre, pg, checked>>

\* lines 1798-1804: my_key_fetch of the dummy key and the test of its
\* return code
ChkFetch(t) ==
  /\ th[t].pc = "chk_fetch"
  /\ LET k == my_key_fetch(keyring, keyring_up, DummyKeyName)
     IN SetTh(t, IF my_key_fetch_ret(keyring_up) # 0
                 THEN [th[t] EXCEPT !.pc = "done", !.ret = "false",
                                    !.why = "probed", !.kr_ok = FALSE,
                                    !.key_name = <<>>]
                 ELSE [th[t] EXCEPT !.pc = "chk_remove", !.master_key = k])
  /\ UNCHANGED <<s_master_key_id, s_uuid, server_uuid, keyring, keyring_up,
                 recv_on, mutex, n_rotated, pre, pg, checked>>

\* lines 1805-1808: my_key_remove, ret = true, checked = true
ChkRemove(t) ==
  /\ th[t].pc = "chk_remove"
  /\ keyring' = my_key_remove(keyring, keyring_up, DummyKeyName)
  /\ checked' = TRUE
  /\ SetTh(t, [th[t] EXCEPT !.pc = "done", !.ret = "true", !.why = "probed",
                            !.kr_ok = @ /\ keyring_up, !.key_name = <<>>])
  /\ UNCHANGED <<s_master_key_id, s_uuid, server_uuid, keyring_up, recv_on,
                 mutex, n_rotated, pre, pg>>

check_keyring(t) ==
  ChkTest(t) \/ ChkGenerate(t) \/ ChkFetch(t) \/ ChkRemove(t)

(* ---------------------------- environment ----------------------------- *)
\* the caller takes the results; the thread is free for the next call
Finish(t) ==
  /\ th[t].pc = "done"
  /\ SetTh(t, Idle)
  /\ pre' = [id |-> DEFAULT_MASTER_KEY_ID, uuid |-> EmptyUuid]
  /\ UNCHANGED <<s_master_key_id, s_uuid, server_uuid, keyring, keyring_up,
                 recv_on, mutex, n_rotated, pg, checked>>

\* the keyring plugin is unloaded or loaded again
KeyringToggle ==
  /\ keyring_up' = ~keyring_up
  /\ UNCHANGED <<s_master_key_id, s_uuid, server_uuid, keyring, recv_on,
                 mutex, th, n_rotated, pre, pg, checked>>

\* crash recovery ends
RecoveryEnds ==
  /\ recv_on
  /\ recv_on' = FALSE
  /\ UNCHANGED <<s_master_key_id, s_uuid, server_uuid, keyring, keyring_up,
                 mutex, th, n_rotated, pre, pg, checked>>

(* ----------------------- primitives of the codec ---------------------- *)
MY_AES_BAD_DATA == -1

\* my_aes_encrypt(.., my_aes_256_ecb, ..): every block enciphered on its own
\* under the key, a keyed permutation of each cell; the length written, or
\* MY_AES_BAD_DATA for an unusable key
my_aes_encrypt_ecb(src, k) ==
  IF k = nullptr THEN [len |-> MY_AES_BAD_DATA, dest |-> <<>>]
  ELSE [len |-> Len(src),
        dest |-> [i \in 1 .. Len(src) |-> ((src[i] % CellMod) + k) % CellMod]]

\* my_aes_decrypt(.., my_aes_256_ecb, ..): the inverse permutation per cell
my_aes_decrypt_ecb(src, k) ==
  IF k = nullptr THEN [len |-> MY_AES_BAD_DATA, dest |-> <<>>]
  ELSE [len |-> Len(src),
        dest |-> [i \in 1 .. Len(src) |->
                   ((src[i] % CellMod) + CellMod - (k % CellMod)) % CellMod]]

\* ut_crc32 over key_info = key || iv: many inputs share one checksum
ut_crc32(key_info) ==
  (2 * key_info[1] + key_info[2] * key_info[2] + 1) % CrcMod

\* memset(encrypt_info, 0, INFO_SIZE) followed by the cells written
ZeroFill(cells) ==
  [i \in 1 .. INFO_SIZE |-> IF i <= Len(cells) THEN cells[i] ELSE 0]

\* the cells ptr .. ptr + n - 1 of a blob
Slice(b, ptr, n) == [i \in 1 .. n |-> b[ptr + i - 1]]

(* ---------------------- fill_encryption_info -------------------------- *)
\* lines 634-685: the V3 blob for (master_key_id, uuid, key, iv)
InfoV3(master_key_id, uuid, master_key, key, iv, encrypt_key) ==
  LET key_info == <<key, iv>>
      e == my_aes_encrypt_ecb(key_info, master_key)
      wrapped == IF encrypt_key THEN e.dest ELSE key_info
  IN ZeroFill(<<KEY_MAGIC_V3, master_key_id, uuid>>
              \o wrapped \o <<ut_crc32(key_info)>>)

\* the {tablespace key, iv} pairs handed to the codec
KeyIvs == {<<k, (k + 1) % 2>> : k \in 1 .. NTsKeys}

\* a fill_encryption_info that asks get_master_key for the master key even
\* at bootstrap and without a server uuid
FillBegin_no_default(t) ==
  /\ th[t].pc = "idle"
  /\ \E kiv \in KeyIvs, is_boot \in BOOLEAN, encrypt_key \in BOOLEAN :
       LET r == [Begin(t, "fill", "fill_write") EXCEPT
                   !.in_key = kiv[1], !.in_iv = kiv[2], !.is_boot = is_boot,
                   !.encrypt_key = encrypt_key]
       IN SetTh(t, IF encrypt_key THEN [r EXCEPT !.pc = "gmk_check"] ELSE r)
  /\ UNCHANGED <<s_master_key_id, s_uuid, server_uuid, keyring, keyring_up,
                 recv_on, mutex, n_rotated, pre, pg, checked>>

\* fill_encryption_info(key, iv, encrypt_info, is_boot, encrypt_key) starts;
\* lines 610-632: the default master key, or get_master_key(&id, &key)
FillBegin(t) ==
  /\ th[t].pc = "idle"
  /\ \E kiv \in KeyIvs, is_boot \in BOOLEAN, encrypt_key \in BOOLEAN :
       LET r == [Begin(t, "fill", "fill_write") EXCEPT
                   !.in_key = kiv[1], !.in_iv = kiv[2], !.is_boot = is_boot,
                   !.encrypt_key = encrypt_key]
       IN SetTh(t, IF encrypt_key
                   THEN IF is_boot \/ server_uuid = EmptyUuid
                        THEN [r EXCEPT !.master_key = DEFAULT_MASTER_KEY]
                        ELSE [r EXCEPT !.pc = "gmk_check"]
                   ELSE r)
  /\ UNCHANGED <<s_master_key_id, s_uuid, server_uuid, keyring, keyring_up,
                 recv_on, mutex, n_rotated, pre, pg, checked>>

\* lines 634-696: write magic, id, s_uuid, the wrapped {key, iv} and the CRC
FillWrite(t) ==
  /\ th[t].pc = "fill_write"
  /\ LET r == th[t]
         e == my_aes_encrypt_ecb(<<r.in_key, r.in_iv>>, r.master_key)
     IN SetTh(t, IF r.encrypt_key /\ e.len = MY_AES_BAD_DATA
                 THEN [r EXCEPT !.pc = "done", !.ret = "false", !.why = "aes"]
                 ELSE [r EXCEPT !.pc = "done", !.ret = "true",
                                !.blob = InfoV3(r.master_key_id, s_uuid,
                                                r.master_key, r.in_key,
                                                r.in_iv, r.encrypt_key)])
  /\ UNCHANGED <<s_master_key_id, s_uuid, server_uuid, keyring, keyring_up,
                 recv_on, mutex, n_rotated, pre, pg, checked>>

fill_encryption_info(t) == FillBegin(t) \/ FillWrite(t)

(* ---------------------- decode_encryption_info ------------------------ *)
\* get_master_key(master_key_id, srv_uuid, &master_key), lines 443-493:
\* the uuid name, or the server_id name when srv_uuid is a null pointer
get_master_key_by_id(kr, up, master_key_id, uuid_given, srv_uuid) ==
  my_key_fetch(kr, up, IF uuid_given THEN UuidKeyName(srv_uuid, master_key_id)
                       ELSE LegacyKeyName(master_key_id))

\* get_master_key_from_info, lines 724-807.  b is the whole blob and the
\* id sits right after the magic; stack is what the caller's srv_uuid
\* buffer holds before the call.  ptr is where the wrapped region starts.
get_master_key_from_info(b, version, stack, kr, up) ==
  LET encrypt_info == MAGIC_SIZE + 1
      key_id == b[encrypt_info]
      ptr == encrypt_info + SIZEOF_UINT32
      ptr8 == IF b[ptr] = 0 THEN ptr + SIZEOF_UINT32 ELSE ptr
  IN CASE version = KEY_MAGIC_V1 ->
            LET mk == get_master_key_by_id(kr, up, key_id, FALSE, EmptyUuid)
            IN IF mk = nullptr
               THEN [ptr |-> encrypt_info, m_key_id |-> 0, srv_uuid |-> stack,
                     master_key |-> nullptr]
               ELSE [ptr |-> ptr8, m_key_id |-> key_id, srv_uuid |-> stack,
                     master_key |-> mk]
       [] version = KEY_MAGIC_V2 ->
            LET u == b[ptr8]
                mk == get_master_key_by_id(kr, up, key_id, TRUE, u)
            IN IF mk = nullptr
               THEN [ptr |-> encrypt_info, m_key_id |-> 0, srv_uuid |-> u,
                     master_key |-> nullptr]
               ELSE [ptr |-> ptr8 + SERVER_UUID_LEN, m_key_id |-> key_id,
                     srv_uuid |-> u, master_key |-> mk]
       [] OTHER ->
            LET u == b[ptr]
                mk == get_master_key_by_id(kr, up, key_id, TRUE, u)
            IN IF key_id = 0
               THEN [ptr |-> ptr + SERVER_UUID_LEN, m_key_id |-> 0,
                     srv_uuid |-> u, master_key |-> DEFAULT_MASTER_KEY]
               ELSE IF mk = nullptr
               THEN [ptr |-> encrypt_info, m_key_id |-> 0, srv_uuid |-> u,
                     master_key |-> nullptr]
               ELSE [ptr |-> ptr + SERVER_UUID_LEN, m_key_id |-> key_id,
                     srv_uuid |-> u, master_key |-> mk]

\* what a decode has established when it leaves its local part
DecodeOut(ret, why, key, iv, m, u) ==
  [ret |-> ret, why |-> why, key |-> key, iv |-> iv, master_key_id |-> m,
   srv_uuid |-> u]

\* a decode that copies key_info to the caller's key and iv before it
\* compares the checksums
DecodeCheck_copy_first(b, ptr, key_info, m, u) ==
  LET crc1 == b[ptr + 2 * KEY_LEN]
      crc2 == ut_crc32(key_info)
  IN IF crc1 # crc2
     THEN DecodeOut("false", "crc", key_info[1], key_info[2], m, u)
     ELSE DecodeOut("go_on", "none", key_info[1], key_info[2], m, u)

\* lines 898-919: compare the stored CRC with the CRC of key_info, then
\* copy key_info to the caller's key and iv
DecodeCheck(b, ptr, key_info, m, u) ==
  LET crc1 == b[ptr + 2 * KEY_LEN]
      crc2 == ut_crc32(key_info)
  IN IF crc1 # crc2
     THEN DecodeOut("false", "crc", Untouched, Untouched, m, u)
     ELSE DecodeOut("go_on", "none", key_info[1], key_info[2], m, u)

\* a decode that reports an unknown magic as a failure even during recovery
DecodeLocal_no_recovery(b, decrypt_key, stack, kr, up, recv) ==
  IF b[1] \notin {KEY_MAGIC_V1, KEY_MAGIC_V2, KEY_MAGIC_V3}
  THEN DecodeOut("false", "magic", Untouched, Untouched,
                 DEFAULT_MASTER_KEY_ID, stack)
  ELSE DecodeOut("false", "no_master_key", Untouched, Untouched,
                 DEFAULT_MASTER_KEY_ID, stack)

\* decode_encryption_info, lines 826-919: everything up to the update of
\* the process-wide id
DecodeLocal(b, decrypt_key, stack, kr, up, recv) ==
  IF b[1] \notin {KEY_MAGIC_V1, KEY_MAGIC_V2, KEY_MAGIC_V3}
  THEN DecodeOut(IF recv THEN "true" ELSE "false", "magic", Untouched,
                 Untouched, DEFAULT_MASTER_KEY_ID, stack)
  ELSE IF decrypt_key
  THEN LET g == get_master_key_from_info(b, b[1], stack, kr, up)
           d == my_aes_decrypt_ecb(Slice(b, g.ptr, 2 * KEY_LEN), g.master_key)
       IN IF g.master_key = nullptr
          THEN DecodeOut("false", "no_master_key", Untouched, Untouched,
                         g.m_key_id, g.srv_uuid)
          ELSE IF d.len = MY_AES_BAD_DATA
          THEN DecodeOut("false", "aes", Untouched, Untouched, g.m_key_id,
                         g.srv_uuid)
          ELSE DecodeCheck(b, g.ptr, d.dest, g.m_key_id, g.srv_uuid)
  ELSE LET ptr == MAGIC_SIZE + 1 + SIZEOF_UINT32 + SERVER_UUID_LEN
       IN DecodeCheck(b, ptr, Slice(b, ptr, 2 * KEY_LEN),
                      DEFAULT_MASTER_KEY_ID, stack)

\* the thread record after the local part of a decode of blob b
DecodeEnter(r, b, decrypt_key, stack) ==
  LET o == DecodeLocal(b, decrypt_key, stack, keyring, keyring_up, recv_on)
  IN [r EXCEPT !.decrypt_key = decrypt_key, !.key = o.key,
               !.iv = o.iv, !.why = o.why, !.master_key_id = o.master_key_id,
               !.srv_uuid = o.srv_uuid,
               !.ret = IF o.ret = "go_on" /\ decrypt_key THEN "none"
                       ELSE IF o.ret = "go_on" THEN "true" ELSE o.ret,
               !.pc = IF o.ret = "go_on" /\ decrypt_key THEN "dec_cmp"
                      ELSE "done"]

\* a decode that takes over the blob's id whenever it differs
DecCmp_not_equal(t) ==
  /\ th[t].pc = "dec_cmp"
  /\ SetTh(t, IF s_master_key_id # th[t].master_key_id
              THEN [th[t] EXCEPT !.pc = "dec_write_id"]
              ELSE [th[t] EXCEPT !.pc = "done", !.ret = "true"])
  /\ UNCHANGED <<s_master_key_id, s_uuid, server_uuid, keyring, keyring_up,
                 recv_on, mutex, n_rotated, pre, pg, checked>>

\* line 937: the test s_master_key_id < master_key_id
DecCmp(t) ==
  /\ th[t].pc = "dec_cmp"
  /\ SetTh(t, IF s_master_key_id < th[t].master_key_id
              THEN [th[t] EXCEPT !.pc = "dec_write_id"]
              ELSE [th[t] EXCEPT !.pc = "done", !.ret = "true"])
  /\ UNCHANGED <<s_master_key_id, s_uuid, server_uuid, keyring, keyring_up,
                 recv_on, mutex, n_rotated, pre, pg, checked>>

\* line 938: s_master_key_id = master_key_id
DecWriteId(t) ==
  /\ th[t].pc = "dec_write_id"
  /\ s_master_key_id' = th[t].master_key_id
  /\ SetTh(t, [th[t] EXCEPT !.pc = "dec_write_uuid"])
  /\ UNCHANGED <<s_uuid, server_uuid, keyring, keyring_up, recv_on, mutex,
                 n_rotated, pre, pg, checked>>

\* line 939: memcpy(s_uuid, srv_uuid, sizeof(s_uuid) - 1)
DecWriteUuid(t) ==
  /\ th[t].pc = "dec_write_uuid"
  /\ s_uuid' = th[t].srv_uuid
  /\ SetTh(t, [th[t] EXCEPT !.pc = "done", !.ret = "true"])
  /\ UNCHANGED <<s_master_key_id, server_uuid, keyring, keyring_up, recv_on,
                 mutex, n_rotated, pre, pg, checked>>

(* ------------------------ blobs found on disk ------------------------- *)
\* a key material other than mk
OtherKey(mk) ==
  IF mk = DEFAULT_MASTER_KEY + 1 THEN DEFAULT_MASTER_KEY + 2
  ELSE DEFAULT_MASTER_KEY + 1

\* an info blob as an earlier run wrote it: version, id in 4 or in 8 bytes
\* (pad), uuid (V2, V3), {key, iv} wrapped under mk, CRC of {key, iv}
\* (off by one when bad_crc)
OldInfo(version, id, pad, uuid, mk, kiv, bad_crc) ==
  ZeroFill(<<version, id>>
           \o (IF pad THEN <<0>> ELSE <<>>)
           \o (IF version = KEY_MAGIC_V1 THEN <<>> ELSE <<uuid>>)
           \o my_aes_encrypt_ecb(kiv, mk).dest
           \o <<ut_crc32(kiv) + (IF bad_crc THEN 1 ELSE 0)>>)

\* version, id, pad, uuid of the blobs the three formats allow
Shapes ==
  {<<KEY_MAGIC_V1, id, pad, EmptyUuid>> : id \in 1 .. MaxKeyId, pad \in BOOLEAN}
  \cup {<<KEY_MAGIC_V2, c[1], c[2], c[3]>> :
          c \in (1 .. MaxKeyId) \X BOOLEAN \X ServerUuids}
  \cup {<<KEY_MAGIC_V3, id, FALSE, u>> : id \in 0 .. MaxKeyId, u \in Uuids}

\* the master key a blob of that shape was wrapped under: the one the
\* keyring holds under the blob's name, a lost one otherwise
WrapKey(kr, sh) ==
  LET name == IF sh[1] = KEY_MAGIC_V1 THEN LegacyKeyName(sh[2])
              ELSE UuidKeyName(sh[4], sh[2])
  IN IF sh[2] = DEFAULT_MASTER_KEY_ID THEN DEFAULT_MASTER_KEY
     ELSE IF name \in DOMAIN kr THEN kr[name] ELSE PriorMaterial(sh[2])

\* a page 0 that was never written
UnknownMagic == ZeroFill(<<"unwritten">>)

\* intact blobs
IntactBlobs(kr) ==
  {OldInfo(sh[1], sh[2], sh[3], sh[4], WrapKey(kr, sh), kiv, FALSE) :
     sh \in Shapes, kiv \in KeyIvs}

\* blobs with a damaged CRC, and blobs wrapped under another key than the
\* keyring now holds
DamagedBlobs(kr) ==
  {OldInfo(sh[1], sh[2], sh[3], sh[4], WrapKey(kr, sh), kiv, TRUE) :
     sh \in Shapes, kiv \in KeyIvs}
  \cup {OldInfo(sh[1], sh[2], sh[3], sh[4], OtherKey(WrapKey(kr, sh)), kiv, FALSE) :
     sh \in Shapes, kiv \in KeyIvs}

\* decode_encryption_info(key, iv, encryption_info, decrypt_key) on a blob
\* read from disk; stack is the uninitialised content of srv_uuid (line 823)
DecodeBegin(t, blobs) ==
  /\ th[t].pc = "idle"
  /\ \E b \in blobs, decrypt_key \in BOOLEAN, stack \in Uuids :
       /\ decrypt_key \/ b[1] \notin {KEY_MAGIC_V1, KEY_MAGIC_V2}
       /\ (decrypt_key /\ b[1] = KEY_MAGIC_V1) \/ stack = EmptyUuid
       /\ SetTh(t, DecodeEnter([Begin(t, "decode", "done") EXCEPT !.src = "old"],
                               b, decrypt_key, stack))
  /\ pre' = [id |-> s_master_key_id, uuid |-> s_uuid]
  /\ UNCHANGED <<s_master_key_id, s_uuid, server_uuid, keyring, keyring_up,
                 recv_on, mutex, n_rotated, pg, checked>>

\* decode_encryption_info on the blob this thread's fill_encryption_info
\* has just produced
DecodeOwn(t) ==
  /\ th[t].pc = "done"
  /\ th[t].op = "fill"
  /\ th[t].ret = "true"
  /\ \E decrypt_key \in BOOLEAN :
       SetTh(t, DecodeEnter([th[t] EXCEPT !.op = "decode", !.src = "own",
                                          !.kr_ok = @ /\ keyring_up,
                                          !.master_key = nullptr,
                                          !.key_name = <<>>, !.tmp = 0],
                            th[t].blob, decrypt_key, EmptyUuid))
  /\ pre' = [id |-> s_master_key_id, uuid |-> s_uuid]
  /\ UNCHANGED <<s_master_key_id, s_uuid, server_uuid, keyring, keyring_up,
                 recv_on, mutex, n_rotated, pg, checked>>

\* the steps of a running decode_encryption_info
decode_encryption_info(t) == DecCmp(t) \/ DecWriteId(t) \/ DecWriteUuid(t)

(* ============================ page cryptor ============================ *)
(* Units.  A page buffer is a sequence of cells; a cell is 4 bytes, so    *)
(* the 4 bytes of the LSN mirror are one cell, the 8 bytes that keyring   *)
(* mode reserves on a compressed page are two cells and one AES block is  *)
(* four cells.  The page header is FIL_PAGE_DATA cells; every header      *)
(* field the cryptor reads or writes has a cell of its own.  Offsets      *)
(* count from 0 as in the code.                                           *)
(* ---------------------------------------------------------------------- *)
\* bounds of the page inputs
\* number of distinct page contents
NBodies == 2
\* number of distinct contents of memory that was never written
NJunk == 2
\* number of distinct page keys
NPageKeys == 2
\* number of distinct key versions
NKeyVersions == 2

\* header layout, in cells (fil0types.h)
FIL_PAGE_SPACE_OR_CHKSUM == 0
FIL_PAGE_TYPE == 1
FIL_PAGE_LSN == 2
FIL_PAGE_ENCRYPTION_KEY_VERSION == 3
FIL_PAGE_VERSION == 4
FIL_PAGE_ORIGINAL_TYPE_V1 == 5
FIL_PAGE_COMPRESS_SIZE_V1 == 6
FIL_PAGE_ZIP_KEYRING_ENCRYPTION_MAGIC == 7
FIL_PAGE_DATA == 8
\* the low 4 bytes of the LSN sit 4 bytes before the end of the page:
\* src_len - FIL_PAGE_END_LSN_OLD_CHKSUM + 4, with the trailer of 8 bytes
LSN_MIRROR == 1
\* the 8 bytes for key version and checksum on a compressed keyring page
KEYRING_EXTRA == 2
\* the 4 bytes of a checksum and of a key version
CHECKSUM_LEN == 1

\* page types (fil0types.h)
FIL_PAGE_TYPE_ALLOCATED == 0
FIL_PAGE_TYPE_FSP_HDR == 8
FIL_PAGE_TYPE_XDES == 9
FIL_PAGE_COMPRESSED == 14
FIL_PAGE_ENCRYPTED == 15
FIL_PAGE_COMPRESSED_AND_ENCRYPTED == 16
FIL_PAGE_ENCRYPTED_RTREE == 17
FIL_PAGE_RTREE == 17854
FIL_PAGE_INDEX == 17855

\* Compression::FIL_PAGE_VERSION_1, _2
FIL_PAGE_VERSION_1 == 1
FIL_PAGE_VERSION_2 == 2
\* ZIP_PAGE_KEYRING_ENCRYPTION_MAGIC, as the content of its header cell
ZIP_PAGE_KEYRING_ENCRYPTION_MAGIC == 3

MY_AES_BLOCK_SIZE == 4
\* line 65
MIN_ENCRYPTION_LEN == 2 * MY_AES_BLOCK_SIZE + FIL_PAGE_DATA

\* sizes, in cells: an uncompressed page, a zip page, the file system
\* block that a compressed page is aligned to
UNIV_PAGE_SIZE == FIL_PAGE_DATA + 11
ZIP_PAGE_SIZE == FIL_PAGE_DATA + 10
BLOCK_SIZE == 20

(* ----------------------------- buffers -------------------------------- *)
\* the n cells at off; a cell outside the buffer reads as junk
Rd(buf, off, n, junk) ==
  [i \in 1 .. n |-> IF off + i \in DOMAIN buf THEN buf[off + i] ELSE junk]

\* the cell at off
At(buf, off) == buf[off + 1]

\* memcpy(buf + off, cells, Len(cells)); a write outside the buffer does not
\* land in it
Wr(buf, off, cells) ==
  [i \in DOMAIN buf |->
     IF i > off /\ i <= off + Len(cells) THEN cells[i - off] ELSE buf[i]]

\* mach_write_to_2 / mach_write_to_4 of one field
Put(buf, off, v) == Wr(buf, off, <<v>>)

\* memset(buf + off, v, n)
Set(buf, off, v, n) == Wr(buf, off, [i \in 1 .. n |-> v])

\* ut_calc_align(n, align_no)
ut_calc_align(n, align_no) == ((n + align_no - 1) \div align_no) * align_no

(* ------------------------------ AES-CBC ------------------------------- *)
\* one cell of the CBC ciphertext: the block cipher under key k applied to
\* the plaintext cell chained with the cell one block earlier (the iv for
\* the first block)
RECURSIVE CbcCell(_, _, _, _)
CbcCell(src, k, iv, i) ==
  LET prev == IF i <= MY_AES_BLOCK_SIZE THEN iv
              ELSE CbcCell(src, k, iv, i - MY_AES_BLOCK_SIZE)
  IN ((src[i] % CellMod) + prev + k + (i % MY_AES_BLOCK_SIZE)) % CellMod

\* my_aes_encrypt(src, len, dest, key, klen, my_aes_256_cbc, iv, false):
\* the length written and the ciphertext, or MY_AES_BAD_DATA
my_aes_encrypt_cbc(src, k, iv, fails) ==
  IF fails \/ k = nullptr THEN [len |-> MY_AES_BAD_DATA, dest |-> <<>>]
  ELSE [len |-> Len(src),
        dest |-> [i \in 1 .. Len(src) |-> CbcCell(src, k, iv, i)]]

\* my_aes_decrypt(.., my_aes_256_cbc, ..): the inverse
my_aes_decrypt_cbc(src, k, iv) ==
  IF k = nullptr THEN [len |-> MY_AES_BAD_DATA, dest |-> <<>>]
  ELSE [len |-> Len(src),
        dest |-> [i \in 1 .. Len(src) |->
                   LET prev == IF i <= MY_AES_BLOCK_SIZE THEN iv
                               ELSE src[i - MY_AES_BLOCK_SIZE] % CellMod
                   IN ((src[i] % CellMod) + 4 * CellMod - prev - (k % CellMod)
                       - (i % MY_AES_BLOCK_SIZE)) % CellMod]]

(* ------------------------- Encryption::encrypt ------------------------ *)
\* any page type but the plain ones counts as encrypted
is_encrypted_page_or_compressed(page) ==
  At(page, FIL_PAGE_TYPE) \in {FIL_PAGE_ENCRYPTED,
                               FIL_PAGE_COMPRESSED_AND_ENCRYPTED,
                               FIL_PAGE_ENCRYPTED_RTREE, FIL_PAGE_COMPRESSED}

\* lines 945-951
is_encrypted_page(page) ==
  At(page, FIL_PAGE_TYPE) \in {FIL_PAGE_ENCRYPTED,
                               FIL_PAGE_COMPRESSED_AND_ENCRYPTED,
                               FIL_PAGE_ENCRYPTED_RTREE}

\* lines 371-381
can_page_be_keyring_encrypted(page_type) ==
  page_type \notin {FIL_PAGE_TYPE_FSP_HDR, FIL_PAGE_TYPE_XDES, FIL_PAGE_RTREE}

\* fil_crypt_calculate_checksum(page_size, dst, is_zip_compressed): a
\* checksum of the encrypted page that is never 0
fil_crypt_calculate_checksum(page_size, dst, zip) ==
  1 + ((At(dst, FIL_PAGE_DATA + 2) + 2 * At(dst, FIL_PAGE_DATA + 3)
        + (IF zip THEN 1 ELSE 0)) % CrcMod)

\* lines 1180-1227: the chunk of whole AES blocks, then the last two blocks
\* over the copied remainder.  ok is FALSE when a call reports
\* MY_AES_BAD_DATA; dst is the destination as it is then
EncryptData(ctx, fails, src, dst0, DST_HEADER_SIZE, data_len, junk) ==
  LET chunk_len == (data_len \div MY_AES_BLOCK_SIZE) * MY_AES_BLOCK_SIZE
      remain_len == data_len - chunk_len
      trailer_len == MY_AES_BLOCK_SIZE * 2
      e1 == my_aes_encrypt_cbc(Rd(src, FIL_PAGE_DATA, chunk_len, junk),
                               ctx.m_key, ctx.m_iv, fails = "chunk")
      d2 == Wr(Wr(dst0, DST_HEADER_SIZE, e1.dest),
               DST_HEADER_SIZE + chunk_len,
               Rd(src, FIL_PAGE_DATA + chunk_len, remain_len, junk))
      e2 == my_aes_encrypt_cbc(
              Rd(d2, DST_HEADER_SIZE + data_len - trailer_len, trailer_len,
                 junk),
              ctx.m_key, ctx.m_iv, fails = "tail")
  IN IF e1.len = MY_AES_BAD_DATA THEN [ok |-> FALSE, dst |-> dst0]
     ELSE IF remain_len = 0 THEN [ok |-> TRUE, dst |-> d2]
     ELSE IF e2.len = MY_AES_BAD_DATA THEN [ok |-> FALSE, dst |-> d2]
     ELSE [ok |-> TRUE,
           dst |-> Wr(d2, DST_HEADER_SIZE + data_len - trailer_len, e2.dest)]

\* the header and the new page type, the original type not saved
EncryptHeader_no_original_type(src, dst, page_type, junk) ==
  Put(Wr(dst, 0, Rd(src, 0, FIL_PAGE_DATA, junk)), FIL_PAGE_TYPE,
      IF page_type = FIL_PAGE_COMPRESSED
      THEN FIL_PAGE_COMPRESSED_AND_ENCRYPTED
      ELSE IF page_type = FIL_PAGE_RTREE THEN FIL_PAGE_ENCRYPTED_RTREE
      ELSE FIL_PAGE_ENCRYPTED)

\* the new page type on a header that is not the one of src
EncryptHeader_type_only(src, dst, page_type, junk) ==
  Put(Put(dst, FIL_PAGE_TYPE, FIL_PAGE_ENCRYPTED), FIL_PAGE_LSN,
      (At(src, FIL_PAGE_LSN) + 1) % CellMod)

\* lines 1236-1253: the header of src, the new page type and, for a page
\* that is neither compressed nor an R-tree page, the original type
EncryptHeader(src, dst, page_type, junk) ==
  LET d4 == Wr(dst, 0, Rd(src, 0, FIL_PAGE_DATA, junk))
  IN IF page_type = FIL_PAGE_COMPRESSED
     THEN Put(d4, FIL_PAGE_TYPE, FIL_PAGE_COMPRESSED_AND_ENCRYPTED)
     ELSE IF page_type = FIL_PAGE_RTREE
     THEN Put(d4, FIL_PAGE_TYPE, FIL_PAGE_ENCRYPTED_RTREE)
     ELSE Put(Put(d4, FIL_PAGE_TYPE, FIL_PAGE_ENCRYPTED),
              FIL_PAGE_ORIGINAL_TYPE_V1, page_type)

\* the KEYRING block with the key version left out of the page header
EncryptKeyring_no_version(ctx, io, page_type, src_len, d6) ==
  LET compressed == page_type = FIL_PAGE_COMPRESSED
  IN [m_checksum |-> 0,
      dst |-> IF compressed
              THEN Set(d6, FIL_PAGE_DATA, 0, KEYRING_EXTRA) ELSE d6]

\* lines 1261-1309, the KEYRING block: key version and post-encryption
\* checksum.  The new m_checksum and the destination
EncryptKeyring(ctx, io, page_type, src_len, d6) ==
  LET compressed == page_type = FIL_PAGE_COMPRESSED
      rotating == ctx.m_encryption_rotation = "MASTER_KEY_TO_KEYRING"
      d7 == IF compressed
            THEN Put(Set(d6, FIL_PAGE_DATA, 0, CHECKSUM_LEN),
                     FIL_PAGE_DATA + CHECKSUM_LEN, ctx.m_key_version)
            ELSE d6
      d8 == IF rotating /\ io.zip
            THEN Put(d7, FIL_PAGE_ZIP_KEYRING_ENCRYPTION_MAGIC,
                     ZIP_PAGE_KEYRING_ENCRYPTION_MAGIC)
            ELSE d7
      page_size == IF compressed THEN At(d8, FIL_PAGE_COMPRESS_SIZE_V1)
                   ELSE IF io.zip THEN io.zip_size ELSE src_len
      m_checksum == IF rotating
                    THEN fil_crypt_calculate_checksum(page_size, d8, io.zip)
                    ELSE 0
      d9 == IF compressed THEN d8
            ELSE Put(d8, FIL_PAGE_ENCRYPTION_KEY_VERSION, ctx.m_key_version)
      at == IF compressed THEN FIL_PAGE_DATA ELSE src_len - CHECKSUM_LEN
  IN [m_checksum |-> m_checksum,
      dst |-> IF m_checksum # 0 /\ (compressed \/ ~io.zip)
              THEN Put(d9, at, m_checksum) ELSE d9]

\* lines 1124-1171 of encrypt_low, as encrypt_low below computes them: the
\* size of the header copied to dst (where the ciphertext starts), the
\* length of the source that counts, and the length of the data that is
\* encrypted
EncryptRegion(ctx, io, src, src_len) ==
  LET page_type == At(src, FIL_PAGE_TYPE)
      is_keyring == ctx.m_type = "KEYRING"
      compressed == page_type = FIL_PAGE_COMPRESSED
      DST_HEADER_SIZE == IF is_keyring /\ compressed
                         THEN FIL_PAGE_DATA + KEYRING_EXTRA ELSE FIL_PAGE_DATA
      z_len == At(src, FIL_PAGE_COMPRESS_SIZE_V1) + FIL_PAGE_DATA
      src_enc_len == IF compressed
                     THEN IF z_len < MIN_ENCRYPTION_LEN
                          THEN MIN_ENCRYPTION_LEN ELSE z_len
                     ELSE src_len
      data_len == IF is_keyring /\ compressed THEN src_enc_len - FIL_PAGE_DATA
                  ELSE IF is_keyring /\ ~io.zip
                  THEN src_enc_len - FIL_PAGE_DATA - LSN_MIRROR
                  ELSE src_enc_len - FIL_PAGE_DATA
  IN [DST_HEADER_SIZE |-> DST_HEADER_SIZE, src_enc_len |-> src_enc_len,
      data_len |-> data_len]

\* encrypt_low, lines 1120-1322.  ctx is the Encryption object, io the
\* IORequest, fails tells which call of the AES primitive reports
\* MY_AES_BAD_DATA, dst0 is the destination buffer as the caller hands it
\* over (src_len cells of junk).  crash: an ut_a fires or the length of the
\* padding memset underflows; oob: ciphertext is written past dst + src_len.
encrypt_low(ctx, io, fails, src, src_len, dst0, junk) ==
  LET page_type == At(src, FIL_PAGE_TYPE)
      is_keyring == ctx.m_type = "KEYRING"
      compressed == page_type = FIL_PAGE_COMPRESSED
      DST_HEADER_SIZE == IF is_keyring /\ compressed
                         THEN FIL_PAGE_DATA + KEYRING_EXTRA ELSE FIL_PAGE_DATA
      z_len == At(src, FIL_PAGE_COMPRESS_SIZE_V1) + FIL_PAGE_DATA
      src_enc_len == IF compressed
                     THEN IF z_len < MIN_ENCRYPTION_LEN
                          THEN MIN_ENCRYPTION_LEN ELSE z_len
                     ELSE src_len
      data_len == IF is_keyring /\ compressed THEN src_enc_len - FIL_PAGE_DATA
                  ELSE IF is_keyring /\ ~io.zip
                  THEN src_enc_len - FIL_PAGE_DATA - LSN_MIRROR
                  ELSE src_enc_len - FIL_PAGE_DATA
      enc == EncryptData(ctx, fails, src, dst0, DST_HEADER_SIZE, data_len,
                         junk)
      d5 == EncryptHeader(src, enc.dst, page_type, junk)
      \* lines 1256-1259: zero the unused portion
      pad_len == src_len - DST_HEADER_SIZE - data_len
      d6 == Set(d5, DST_HEADER_SIZE + data_len, 0,
                IF src_len > src_enc_len THEN pad_len ELSE 0)
      kr == EncryptKeyring(ctx, io, page_type, src_len, d6)
      failed(dst) == [ok |-> FALSE, src |-> src, dst |-> dst,
                      dst_len |-> src_len, m_checksum |-> ctx.m_checksum,
                      crash |-> FALSE, oob |-> FALSE]
  IN IF src_enc_len > src_len
     THEN [failed(dst0) EXCEPT !.crash = TRUE]
     ELSE IF ~enc.ok THEN failed(enc.dst)
     ELSE IF src_len > src_enc_len /\ pad_len < 0
     THEN [failed(d5) EXCEPT !.crash = TRUE]
     ELSE [ok |-> TRUE,
           src |-> IF is_keyring
                   THEN Put(src, FIL_PAGE_ENCRYPTION_KEY_VERSION,
                            ctx.m_key_version)
                   ELSE src,
           dst |-> IF is_keyring THEN kr.dst ELSE d6,
           dst_len |-> src_len,
           m_checksum |-> IF is_keyring THEN kr.m_checksum
                          ELSE ctx.m_checksum,
           crash |-> FALSE,
           oob |-> DST_HEADER_SIZE + data_len > src_len]

\* the destination returned whatever encrypt_low says
encrypt_returns_dst(ctx, io, fails, src, src_len, dst0, junk) ==
  [ret |-> "dst", low |-> encrypt_low(ctx, io, fails, src, src_len, dst0,
                                      junk)]

\* Encryption::encrypt, lines 1324-1371: the pointer it returns
encrypt(ctx, io, fails, src, src_len, dst0, junk) ==
  LET r == encrypt_low(ctx, io, fails, src, src_len, dst0, junk)
  IN [ret |-> IF r.ok THEN "dst" ELSE "src", low |-> r]

(* ------------------------- Encryption::decrypt ------------------------ *)
\* the two tests taken in the other order
DecryptEntry_nothing_to_do_first(ctx, src) ==
  IF ~is_encrypted_page(src) \/ ctx.m_type = "NONE" THEN "DB_SUCCESS"
  ELSE IF is_encrypted_page(src) /\ ctx.m_type = "NONE"
  THEN "DB_IO_DECRYPT_FAIL"
  ELSE "decrypt"

\* lines 1551-1559: an encrypted page needs a key; a page that is not
\* encrypted, or a context without encryption, leaves nothing to do
DecryptEntry(ctx, src) ==
  IF is_encrypted_page(src) /\ ctx.m_type = "NONE" THEN "DB_IO_DECRYPT_FAIL"
  ELSE IF ~is_encrypted_page(src) \/ ctx.m_type = "NONE" THEN "DB_SUCCESS"
  ELSE "decrypt"

\* lines 1561-1633 of decrypt, as decrypt below computes them: the length
\* of the page, the size of the header (where the ciphertext starts) and
\* the length of the data that is decrypted
DecryptRegion(ctx, io, src, src_len_arg) ==
  LET page_type == At(src, FIL_PAGE_TYPE)
      is_keyring == ctx.m_type = "KEYRING"
      comp_enc == page_type = FIL_PAGE_COMPRESSED_AND_ENCRYPTED
      z_len == IF comp_enc THEN At(src, FIL_PAGE_COMPRESS_SIZE_V1) ELSE 0
      src_len == IF comp_enc
                 THEN IF At(src, FIL_PAGE_VERSION) = FIL_PAGE_VERSION_1
                      THEN ut_calc_align(z_len + FIL_PAGE_DATA, io.block_size)
                      ELSE IF z_len + FIL_PAGE_DATA < MIN_ENCRYPTION_LEN
                      THEN MIN_ENCRYPTION_LEN ELSE z_len + FIL_PAGE_DATA
                 ELSE src_len_arg
      HEADER_SIZE == IF is_keyring /\ comp_enc
                     THEN FIL_PAGE_DATA + KEYRING_EXTRA ELSE FIL_PAGE_DATA
      data_len == IF is_keyring /\ comp_enc
                  THEN src_len - HEADER_SIZE + KEYRING_EXTRA
                  ELSE IF page_type = FIL_PAGE_ENCRYPTED /\ is_keyring /\ ~io.zip
                  THEN src_len - HEADER_SIZE - LSN_MIRROR
                  ELSE src_len - HEADER_SIZE
  IN [src_len |-> src_len, HEADER_SIZE |-> HEADER_SIZE, data_len |-> data_len]

\* decrypt, lines 1542-1771, in place on src; the dst of the code is the
\* scratch area tmp
decrypt(ctx, io, src, src_len_arg, junk) ==
  LET page_type == At(src, FIL_PAGE_TYPE)
      is_keyring == ctx.m_type = "KEYRING"
      comp_enc == page_type = FIL_PAGE_COMPRESSED_AND_ENCRYPTED
      z_len == IF comp_enc THEN At(src, FIL_PAGE_COMPRESS_SIZE_V1) ELSE 0
      src_len == IF comp_enc
                 THEN IF At(src, FIL_PAGE_VERSION) = FIL_PAGE_VERSION_1
                      THEN ut_calc_align(z_len + FIL_PAGE_DATA, io.block_size)
                      ELSE IF z_len + FIL_PAGE_DATA < MIN_ENCRYPTION_LEN
                      THEN MIN_ENCRYPTION_LEN ELSE z_len + FIL_PAGE_DATA
                 ELSE src_len_arg
      HEADER_SIZE == IF is_keyring /\ comp_enc
                     THEN FIL_PAGE_DATA + KEYRING_EXTRA ELSE FIL_PAGE_DATA
      original_type == At(src, FIL_PAGE_ORIGINAL_TYPE_V1)
      ptr == HEADER_SIZE
      data_len == IF is_keyring /\ comp_enc
                  THEN src_len - HEADER_SIZE + KEYRING_EXTRA
                  ELSE IF page_type = FIL_PAGE_ENCRYPTED /\ is_keyring /\ ~io.zip
                  THEN src_len - HEADER_SIZE - LSN_MIRROR
                  ELSE src_len - HEADER_SIZE
      main_len == (data_len \div MY_AES_BLOCK_SIZE) * MY_AES_BLOCK_SIZE
      remain_len == data_len - main_len
      two_blocks == MY_AES_BLOCK_SIZE * 2
      \* lines 1640-1673: the last two blocks first, the rest copied
      remain_buf == Rd(src, ptr + data_len - two_blocks, two_blocks, junk)
      t1 == my_aes_decrypt_cbc(remain_buf, ctx.m_key, ctx.m_iv)
      tmp == IF remain_len # 0
             THEN Rd(src, ptr, data_len - two_blocks, junk) \o t1.dest
             ELSE Rd(src, ptr, data_len, junk)
      \* lines 1676-1681
      ptr2 == IF is_keyring /\ comp_enc THEN ptr - KEYRING_EXTRA ELSE ptr
      s1 == IF is_keyring /\ comp_enc
            THEN Set(src, ptr2 + data_len, 0, KEYRING_EXTRA) ELSE src
      \* lines 1684-1699: the main data, then the remaining bytes
      t2 == my_aes_decrypt_cbc(SubSeq(tmp, 1, main_len), ctx.m_key, ctx.m_iv)
      s2 == Wr(s1, ptr2, t2.dest)
      s3 == Wr(s2, ptr2 + main_len, SubSeq(tmp, main_len + 1, data_len))
      \* lines 1717-1722: restore LSN
      s4 == IF is_keyring /\ ~comp_enc /\ ~io.zip
            THEN Wr(s3, src_len - LSN_MIRROR, Rd(s3, FIL_PAGE_LSN, LSN_MIRROR, junk))
            ELSE s3
      \* lines 1728-1735: restore the page type
      s5 == IF page_type = FIL_PAGE_ENCRYPTED
            THEN Put(s4, FIL_PAGE_TYPE, original_type)
            ELSE IF page_type = FIL_PAGE_ENCRYPTED_RTREE
            THEN Put(s4, FIL_PAGE_TYPE, FIL_PAGE_RTREE)
            ELSE Put(s4, FIL_PAGE_TYPE, FIL_PAGE_COMPRESSED)
      \* lines 1739-1742: mark the original type as encrypted
      s6 == IF original_type # FIL_PAGE_TYPE_ALLOCATED /\ ~comp_enc
            THEN Put(s5, FIL_PAGE_ORIGINAL_TYPE_V1, FIL_PAGE_ENCRYPTED)
            ELSE s5
  IN IF DecryptEntry(ctx, src) # "decrypt"
     THEN [err |-> DecryptEntry(ctx, src), src |-> src]
     ELSE IF remain_len # 0 /\ t1.len = MY_AES_BAD_DATA
     THEN [err |-> "DB_IO_DECRYPT_FAIL", src |-> src]
     ELSE IF t2.len = MY_AES_BAD_DATA
     THEN [err |-> "DB_IO_DECRYPT_FAIL", src |-> s1]
     ELSE [err |-> "DB_SUCCESS", src |-> s6]

(* --------------------------- pages in hand ---------------------------- *)
\* n cells of page content
Body(seed, n) ==
  [i \in 1 .. n |-> (seed + i * (seed + 1) + (i \div 3)) % CellMod]

\* the low 4 bytes of the page's LSN
Lsn(seed) == (seed + 1) % CellMod

\* the FIL_PAGE_DATA header cells
Header(seed, type, key_version, version, original_type, z) ==
  <<seed, type, Lsn(seed), key_version, version, original_type, z, 0>>

\* an uncompressed page as the buffer pool hands it to the I/O layer: a
\* zip page, or a page that ends with the mirror of the LSN.  reread: the
\* page was read earlier from an encrypted tablespace, and the header
\* still holds what decrypt left there
PlainPage(seed, type, zip, reread) ==
  LET n == (IF zip THEN ZIP_PAGE_SIZE ELSE UNIV_PAGE_SIZE) - FIL_PAGE_DATA
      b == Body(seed, n)
  IN Header(seed, type, IF reread THEN 1 ELSE 0, 0,
            IF reread THEN FIL_PAGE_ENCRYPTED ELSE 0, 0)
     \o (IF zip THEN b ELSE [b EXCEPT ![n] = Lsn(seed)])

\* a page after page compression: z cells of payload, zeros up to the next
\* file system block
CompressedPage(seed, z) ==
  LET len == ut_calc_align(z + FIL_PAGE_DATA, BLOCK_SIZE)
      b == Body(seed, z)
  IN Header(seed, FIL_PAGE_COMPRESSED, 0, FIL_PAGE_VERSION_2,
            FIL_PAGE_INDEX, z)
     \o [i \in 1 .. (len - FIL_PAGE_DATA) |-> IF i <= z THEN b[i] ELSE 0]

\* compressed payload sizes: one below the minimum that is encrypted, and
\* those that leave 3, 2, 1 and 0 cells of the block unused
ZSizes ==
  {3} \cup ((BLOCK_SIZE - FIL_PAGE_DATA - 3) .. (BLOCK_SIZE - FIL_PAGE_DATA))

PlainTypes ==
  {FIL_PAGE_INDEX, FIL_PAGE_TYPE_ALLOCATED, FIL_PAGE_RTREE,
   FIL_PAGE_TYPE_FSP_HDR}

\* the pages, each with the is_page_zip_compressed() of its request
Pages ==
  {[page |-> PlainPage(c[1], c[2], c[3], c[4]), zip |-> c[3]] :
     c \in (0 .. NBodies - 1) \X PlainTypes \X BOOLEAN \X BOOLEAN}
  \cup {[page |-> CompressedPage(seed, z), zip |-> FALSE] :
          seed \in 0 .. NBodies - 1, z \in ZSizes}

\* the Encryption objects of the tablespaces
Contexts ==
  {[m_type |-> "NONE", m_key |-> nullptr, m_iv |-> 0, m_key_version |-> 0,
    m_encryption_rotation |-> "NO_ROTATION", m_checksum |-> 0]}
  \cup {[m_type |-> "AES", m_key |-> k, m_iv |-> (k + 1) % CellMod,
         m_key_version |-> 0, m_encryption_rotation |-> "NO_ROTATION",
         m_checksum |-> 0] : k \in 1 .. NPageKeys}
  \cup {[m_type |-> "KEYRING", m_key |-> c[1], m_iv |-> (c[1] + 1) % CellMod,
         m_key_version |-> c[2], m_encryption_rotation |-> c[3],
         m_checksum |-> 0] :
          c \in (1 .. NPageKeys) \X (1 .. NKeyVersions)
                \X {"NO_ROTATION", "MASTER_KEY_TO_KEYRING"}}

(* ------------------------ steps of the page I/O ----------------------- *)
\* everything but pg
mkm_vars == <<s_master_key_id, s_uuid, server_uuid, keyring, keyring_up,
              recv_on, mutex, th, n_rotated, pre, checked>>

\* the I/O layer takes a page, the Encryption object of its tablespace and
\* a destination buffer
PageBegin ==
  /\ pg.pc = "idle"
  /\ \E p \in Pages, ctx \in Contexts, junk \in 0 .. NJunk - 1,
        fails \in {"no", "chunk", "tail"} :
       pg' = [pc |-> "plain", P |-> p.page, src |-> p.page,
              src_len |-> Len(p.page),
              dst |-> [i \in 1 .. Len(p.page) |-> junk], dst_len |-> 0,
              ctx |-> ctx, ctx0 |-> ctx,
              io |-> [zip |-> p.zip, zip_size |-> ZIP_PAGE_SIZE,
                      block_size |-> BLOCK_SIZE],
              junk |-> junk, fails |-> fails, ret |-> "none",
              err |-> "none", crash |-> FALSE, oob |-> FALSE,
              buf |-> <<>>, dctx |-> ctx]
  /\ UNCHANGED mkm_vars

\* a write: Encryption::encrypt(type, src, src_len, dst, &dst_len).  A
\* write past the end of dst either kills the server or goes unnoticed
PageEncrypt ==
  /\ pg.pc = "plain"
  /\ pg.ctx.m_type # "NONE"
  /\ \E dies \in BOOLEAN :
     LET r == encrypt(pg.ctx, pg.io, pg.fails, pg.src, pg.src_len, pg.dst,
                      pg.junk)
     IN pg' = [pg EXCEPT !.pc = IF r.low.crash \/ (r.low.oob /\ dies)
                                 THEN "crashed" ELSE "encrypted",
                         !.src = r.low.src, !.dst = r.low.dst,
                         !.dst_len = r.low.dst_len,
                         !.ctx.m_checksum = r.low.m_checksum,
                         !.ret = r.ret, !.crash = r.low.crash,
                         !.oob = r.low.oob]
  /\ UNCHANGED mkm_vars

\* a read of the page just written: Encryption::decrypt on the encrypted
\* buffer, with the same Encryption object or with one that has no key
PageDecrypt ==
  /\ pg.pc = "encrypted"
  /\ pg.ret = "dst"
  /\ \E no_key \in BOOLEAN :
       LET dctx == IF no_key THEN [pg.ctx EXCEPT !.m_type = "NONE"]
                   ELSE pg.ctx
           r == decrypt(dctx, pg.io, pg.dst, pg.dst_len, pg.junk)
       IN pg' = [pg EXCEPT !.pc = "decrypted", !.buf = r.src,
                           !.err = r.err, !.dctx = dctx]
  /\ UNCHANGED mkm_vars

\* a read of a page that was written without encryption
PageRead ==
  /\ pg.pc = "plain"
  /\ LET r == decrypt(pg.ctx, pg.io, pg.src, pg.src_len, pg.junk)
     IN pg' = [pg EXCEPT !.pc = "read", !.buf = r.src, !.err = r.err]
  /\ UNCHANGED mkm_vars

\* the I/O is complete
PageDone ==
  /\ pg.pc \in {"encrypted", "decrypted", "read"}
  /\ pg' = PgIdle
  /\ UNCHANGED mkm_vars

(* --------------------------- redo log blocks -------------------------- *)
\* blocks in one log buffer
NLogBlocks == 2

\* sizes and offsets of a log block, in cells (log0log.h): the 12 bytes of
\* the header, the 496 bytes that make whole AES blocks, and the 4 bytes of
\* the trailer
LOG_BLOCK_HDR_SIZE == 3
LOG_BLOCK_HDR_DATA_LEN == 1
LOG_BLOCK_TRL_SIZE == 1
OS_FILE_LOG_BLOCK_SIZE ==
  LOG_BLOCK_HDR_SIZE + 3 * MY_AES_BLOCK_SIZE + LOG_BLOCK_TRL_SIZE
LOG_BLOCK_CHECKSUM == OS_FILE_LOG_BLOCK_SIZE - LOG_BLOCK_TRL_SIZE
\* the flag in the data length field that marks an encrypted block
LOG_BLOCK_ENCRYPT_BIT_MASK == 32768
\* the key version of a block that carries none
REDO_LOG_ENCRYPT_NO_VERSION == 0

\* the values of a 4-byte field, and of an ulint (8 bytes): a cell is one
\* 4-byte word
UINT32_MOD == CellMod
ULINT_MOD == UINT32_MOD * UINT32_MOD

\* log_block_get_encrypt_bit(log_block)
log_block_get_encrypt_bit(log_block) ==
  At(log_block, LOG_BLOCK_HDR_DATA_LEN) >= LOG_BLOCK_ENCRYPT_BIT_MASK

\* lines 959-961
is_encrypted_log(block) == log_block_get_encrypt_bit(block)

\* log_block_set_encrypt_bit(log_block, val)
log_block_set_encrypt_bit(log_block, val) ==
  LET field == At(log_block, LOG_BLOCK_HDR_DATA_LEN)
                 % LOG_BLOCK_ENCRYPT_BIT_MASK
  IN Put(log_block, LOG_BLOCK_HDR_DATA_LEN,
         IF val THEN field + LOG_BLOCK_ENCRYPT_BIT_MASK ELSE field)

\* the sum that stands for the CRC-32C of the first n cells
RECURSIVE CrcSum(_, _)
CrcSum(block, n) ==
  IF n = 0 THEN 0
  ELSE CrcSum(block, n - 1)
       + n * (block[n] % LOG_BLOCK_ENCRYPT_BIT_MASK)
       + (block[n] \div LOG_BLOCK_ENCRYPT_BIT_MASK)

\* log_block_calc_checksum_crc32(log_block): the CRC-32C of the block
\* without its trailer, a 32-bit value
log_block_calc_checksum_crc32(log_block) ==
  CrcSum(log_block, LOG_BLOCK_CHECKSUM) % UINT32_MOD

\* log_block_get_checksum(log_block)
log_block_get_checksum(log_block) == At(log_block, LOG_BLOCK_CHECKSUM)

\* log_block_set_checksum(log_block, checksum): mach_write_to_4 keeps the
\* low 32 bits
log_block_set_checksum(log_block, checksum) ==
  Put(log_block, LOG_BLOCK_CHECKSUM, checksum % UINT32_MOD)

\* the key of the redo log under key version v, as the keyring holds it
RedoLogKey(version) == 1 + (version % NPageKeys)

\* redo_log_key_mgr.load_key_version(nullptr, uuid, version): the key and
\* its version, or a null pointer when the keyring has no such version.
\* The version travels as the 32-bit key version of the redo log
load_key_version(version) ==
  LET v == version % UINT32_MOD
  IN IF v \in 1 .. NKeyVersions
     THEN [null |-> FALSE, version |-> v, key |-> RedoLogKey(v)]
     ELSE [null |-> TRUE, version |-> 0, key |-> nullptr]

(* ------------------- Encryption::encrypt_log_block -------------------- *)
\* lines 985-1043: the header copied as is, the whole AES blocks of the
\* data encrypted, the rest of the block copied, then the last two blocks
\* of the data encrypted over the copy
EncryptLogData(ctx, fails, src_ptr, dst_ptr) ==
  LET unencrypted_trailer_size ==
        IF ctx.m_type = "KEYRING" THEN LOG_BLOCK_TRL_SIZE ELSE 0
      data_len == OS_FILE_LOG_BLOCK_SIZE - LOG_BLOCK_HDR_SIZE
                  - unencrypted_trailer_size
      main_len == (data_len \div MY_AES_BLOCK_SIZE) * MY_AES_BLOCK_SIZE
      remain_len == data_len - main_len
      two_blocks == MY_AES_BLOCK_SIZE * 2
      hdr == Wr(dst_ptr, 0, SubSeq(src_ptr, 1, LOG_BLOCK_HDR_SIZE))
      e1 == my_aes_encrypt_cbc(
              SubSeq(src_ptr, LOG_BLOCK_HDR_SIZE + 1,
                     LOG_BLOCK_HDR_SIZE + main_len),
              ctx.m_key, ctx.m_iv, fails = "chunk")
      d2 == Wr(hdr, LOG_BLOCK_HDR_SIZE,
               e1.dest \o SubSeq(src_ptr, LOG_BLOCK_HDR_SIZE + main_len + 1,
                                 OS_FILE_LOG_BLOCK_SIZE))
      e2 == my_aes_encrypt_cbc(
              SubSeq(d2, LOG_BLOCK_HDR_SIZE + data_len - two_blocks + 1,
                     LOG_BLOCK_HDR_SIZE + data_len),
              ctx.m_key, ctx.m_iv, fails = "tail")
  IN IF e1.len = MY_AES_BAD_DATA THEN [ok |-> FALSE, dst |-> hdr]
     ELSE IF remain_len = 0 THEN [ok |-> TRUE, dst |-> d2]
     ELSE IF e2.len = MY_AES_BAD_DATA THEN [ok |-> FALSE, dst |-> d2]
     ELSE [ok |-> TRUE,
           dst |-> Wr(d2, LOG_BLOCK_HDR_SIZE + data_len - two_blocks,
                      e2.dest)]

\* encrypt_log_block, lines 963-1093: false with dst as it is then when AES
\* reports MY_AES_BAD_DATA; else the encrypted flag is set and, in KEYRING
\* mode, the checksum becomes crc + m_key_version, computed as ulint
encrypt_log_block(ctx, fails, src_ptr, dst_ptr) ==
  LET enc == EncryptLogData(ctx, fails, src_ptr, dst_ptr)
      flagged == log_block_set_encrypt_bit(enc.dst, TRUE)
      crc == log_block_calc_checksum_crc32(flagged)
  IN IF ~enc.ok THEN enc
     ELSE [ok |-> TRUE,
           dst |-> IF ctx.m_type = "KEYRING"
                   THEN log_block_set_checksum(
                          flagged, (crc + ctx.m_key_version) % ULINT_MOD)
                   ELSE flagged]

\* encrypt_log, lines 1095-1118, over the blocks from the i-th on: the
\* blocks one by one until one fails.  failing is the block for which AES
\* reports MY_AES_BAD_DATA (0: none)
RECURSIVE EncryptLogFrom(_, _, _, _, _, _)
EncryptLogFrom(ctx, fails, failing, src, dst, i) ==
  IF i > Len(src) THEN [ok |-> TRUE, dst |-> dst]
  ELSE LET r == encrypt_log_block(ctx, IF i = failing THEN fails ELSE "no",
                                  src[i], dst[i])
       IN IF ~r.ok THEN [ok |-> FALSE, dst |-> [dst EXCEPT ![i] = r.dst]]
          ELSE EncryptLogFrom(ctx, fails, failing, src,
                              [dst EXCEPT ![i] = r.dst], i + 1)

\* Encryption::encrypt_log, lines 1095-1118: the pointer returned, the
\* destination, and *dst_len, which is assigned on the failure path only
encrypt_log(ctx, fails, failing, src, src_len, dst, dst_len) ==
  LET r == EncryptLogFrom(ctx, fails, failing, src, dst, 1)
  IN [ret |-> IF r.ok THEN "dst" ELSE "src", dst |-> r.dst,
      dst_len |-> IF r.ok THEN dst_len ELSE src_len]

(* ------------------- Encryption::decrypt_log_block -------------------- *)
\* lines 1392-1395: enc_key_version = written_crc - block_crc, all three of
\* type ulint
DecryptLogVersion(src) ==
  (log_block_get_checksum(src) + ULINT_MOD
   - log_block_calc_checksum_crc32(src)) % ULINT_MOD

\* lines 1391-1404, case KEYRING: the key version of the block and, when it
\* is not the loaded one, the key of that version from the redo log key
\* manager.  asked: the versions the key manager was asked for; crash: the
\* key manager had no such key and the null pointer is dereferenced
DecryptLogKey(ctx, src) ==
  LET enc_key_version == DecryptLogVersion(src)
      mkey == load_key_version(enc_key_version)
  IN IF ctx.m_type # "KEYRING"
     THEN [ctx |-> ctx, asked |-> <<>>, recovered |-> <<>>, crash |-> FALSE]
     ELSE IF ctx.m_key_version # enc_key_version
             /\ enc_key_version # REDO_LOG_ENCRYPT_NO_VERSION
     THEN [ctx |-> IF mkey.null THEN ctx
                   ELSE [ctx EXCEPT !.m_key_version = mkey.version,
                                    !.m_key = mkey.key],
           asked |-> <<enc_key_version>>, recovered |-> <<enc_key_version>>,
           crash |-> mkey.null]
     ELSE [ctx |-> ctx, asked |-> <<>>, recovered |-> <<enc_key_version>>,
           crash |-> FALSE]

\* lines 1406-1452, case AES: the last two blocks of the data first, then
\* the whole AES blocks, then the remaining bytes, in place on src
DecryptLogData(ctx, src) ==
  LET unencrypted_trailer_size ==
        IF ctx.m_type = "KEYRING" THEN LOG_BLOCK_TRL_SIZE ELSE 0
      data_len == OS_FILE_LOG_BLOCK_SIZE - LOG_BLOCK_HDR_SIZE
                  - unencrypted_trailer_size
      main_len == (data_len \div MY_AES_BLOCK_SIZE) * MY_AES_BLOCK_SIZE
      remain_len == data_len - main_len
      two_blocks == MY_AES_BLOCK_SIZE * 2
      ptr == LOG_BLOCK_HDR_SIZE
      remain_buf == SubSeq(src, ptr + data_len - two_blocks + 1,
                           ptr + data_len)
      t1 == my_aes_decrypt_cbc(remain_buf, ctx.m_key, ctx.m_iv)
      dst == IF remain_len # 0
             THEN SubSeq(src, ptr + 1, ptr + data_len - two_blocks)
                  \o t1.dest
             ELSE SubSeq(src, ptr + 1, ptr + data_len)
      t2 == my_aes_decrypt_cbc(SubSeq(dst, 1, main_len), ctx.m_key,
                               ctx.m_iv)
  IN IF remain_len # 0 /\ t1.len = MY_AES_BAD_DATA
     THEN [ok |-> FALSE, src |-> src]
     ELSE IF t2.len = MY_AES_BAD_DATA THEN [ok |-> FALSE, src |-> src]
     ELSE [ok |-> TRUE,
           src |-> Wr(src, ptr,
                      t2.dest \o SubSeq(dst, main_len + 1, data_len))]

\* decrypt_log_block, lines 1373-1482, in place on src
decrypt_log_block(ctx, src) ==
  LET k == DecryptLogKey(ctx, src)
      d == DecryptLogData(k.ctx, src)
      cleared == log_block_set_encrypt_bit(d.src, FALSE)
  IN [err |-> IF ctx.m_type \notin {"KEYRING", "AES"} THEN "DB_UNSUPPORTED"
              ELSE IF k.crash THEN "none"
              ELSE IF ~d.ok THEN "DB_IO_DECRYPT_FAIL"
              ELSE "DB_SUCCESS",
      src |-> IF ctx.m_type \notin {"KEYRING", "AES"} \/ k.crash \/ ~d.ok
              THEN src
              ELSE IF ctx.m_type = "KEYRING"
              THEN log_block_set_checksum(
                     cleared, log_block_calc_checksum_crc32(cleared))
              ELSE cleared,
      ctx |-> k.ctx, asked |-> k.asked, recovered |-> k.recovered,
      crash |-> k.crash]

\* decrypt_log, lines 1484-1540, over the blocks from the i-th on: a block
\* that is not encrypted is skipped, the first error ends the call.  asked
\* and recovered are those of the blocks before
RECURSIVE DecryptLogFrom(_, _, _, _, _)
DecryptLogFrom(ctx, src, i, asked, recovered) ==
  IF i > Len(src)
  THEN [err |-> "DB_SUCCESS", src |-> src, ctx |-> ctx, asked |-> asked,
        recovered |-> recovered, crash |-> FALSE]
  ELSE IF ~is_encrypted_log(src[i])
  THEN DecryptLogFrom(ctx, src, i + 1, asked, recovered)
  ELSE CHOOSE r \in
         {IF b.crash \/ b.err # "DB_SUCCESS"
          THEN [err |-> b.err, src |-> [src EXCEPT ![i] = b.src],
                ctx |-> b.ctx, asked |-> asked \o b.asked,
                recovered |-> recovered \o b.recovered, crash |-> b.crash]
          ELSE DecryptLogFrom(b.ctx, [src EXCEPT ![i] = b.src], i + 1,
                              asked \o b.asked, recovered \o b.recovered) :
            b \in {decrypt_log_block(ctx, src[i])}} : TRUE

\* Encryption::decrypt_log(type, src, src_len, dst, dst_len)
decrypt_log(ctx, src) == DecryptLogFrom(ctx, src, 1, <<>>, <<>>)

(* ------------------------- log buffers in hand ------------------------ *)
\* a log block as the log writer hands it over: header (block number, data
\* length with the encrypted flag clear, checkpoint number), payload, and
\* the checksum: the CRC-32C of the block, or with log checksums switched
\* off another value
LogBlock(hdr_no, seed, crc32) ==
  LET b == <<hdr_no % UINT32_MOD, seed + 1, Lsn(seed)>>
           \o Body(seed, LOG_BLOCK_CHECKSUM - LOG_BLOCK_HDR_SIZE) \o <<0>>
      crc == log_block_calc_checksum_crc32(b)
  IN log_block_set_checksum(b, IF crc32 THEN crc ELSE crc + 1)

\* the log buffers: n blocks with consecutive block numbers
LogBuffers ==
  {[i \in 1 .. n |-> LogBlock(c[1] + i - 1, c[2], c[3])] :
     n \in 1 .. NLogBlocks,
     c \in (0 .. UINT32_MOD - 1) \X (0 .. NBodies - 1) \X BOOLEAN}

\* the Encryption objects of the redo log: the key of the log file header,
\* or in KEYRING mode the key of one version
LogContexts ==
  {[m_type |-> "AES", m_key |-> k, m_iv |-> 1, m_key_version |-> 0,
    m_encryption_rotation |-> "NO_ROTATION", m_checksum |-> 0] :
     k \in 1 .. NPageKeys}
  \cup {[m_type |-> "KEYRING", m_key |-> RedoLogKey(v), m_iv |-> 1,
         m_key_version |-> v, m_encryption_rotation |-> "NO_ROTATION",
         m_checksum |-> 0] : v \in 1 .. NKeyVersions}

(* ------------------------ steps of the log I/O ------------------------ *)
\* the I/O layer takes a log buffer, the Encryption object of the redo log,
\* a destination buffer and the variable for the length, which holds what
\* the caller left there
LogBegin ==
  /\ pg.pc = "idle"
  /\ \E B \in LogBuffers, ctx \in LogContexts, junk \in 0 .. NJunk - 1,
        fails \in {"chunk", "tail"}, failing \in 0 .. NLogBlocks,
        len0 \in BOOLEAN :
       /\ failing <= Len(B)
       /\ fails = "tail" => failing # 0
       /\ pg' = [pc |-> "log_plain", B |-> B, src |-> B,
                 src_len |-> Len(B) * OS_FILE_LOG_BLOCK_SIZE,
                 dst |-> [i \in 1 .. Len(B) |->
                            [j \in 1 .. OS_FILE_LOG_BLOCK_SIZE |-> junk]],
                 dst_len |-> IF len0 THEN 0
                             ELSE Len(B) * OS_FILE_LOG_BLOCK_SIZE,
                 ctx |-> ctx, ctx0 |-> ctx, fails |-> fails,
                 failing |-> failing, ret |-> "none", err |-> "none",
                 buf |-> <<>>, dctx |-> ctx, dctx0 |-> ctx,
                 asked |-> <<>>, recovered |-> <<>>]
  /\ UNCHANGED mkm_vars

\* a write: Encryption::encrypt_log(type, src, src_len, dst, &dst_len)
LogEncrypt ==
  /\ pg.pc = "log_plain"
  /\ LET r == encrypt_log(pg.ctx, pg.fails, pg.failing, pg.src, pg.src_len,
                          pg.dst, pg.dst_len)
     IN pg' = [pg EXCEPT !.pc = "log_encrypted", !.dst = r.dst,
                         !.dst_len = r.dst_len, !.ret = r.ret]
  /\ UNCHANGED mkm_vars

\* a read of the blocks just written: Encryption::decrypt_log on the
\* encrypted buffer, with an Encryption object of the same mode; in
\* KEYRING mode the key version loaded is any of those in the keyring
LogDecrypt ==
  /\ pg.pc = "log_encrypted"
  /\ pg.ret = "dst"
  /\ \E version \in 1 .. NKeyVersions :
       LET dctx0 == IF pg.ctx.m_type = "KEYRING"
                    THEN [pg.ctx EXCEPT !.m_key_version = version,
                                        !.m_key = RedoLogKey(version)]
                    ELSE pg.ctx
           r == decrypt_log(dctx0, pg.dst)
       IN pg' = [pg EXCEPT !.pc = IF r.crash THEN "log_crashed"
                                   ELSE "log_decrypted",
                           !.buf = r.src, !.err = r.err, !.dctx0 = dctx0,
                           !.dctx = r.ctx, !.asked = r.asked,
                           !.recovered = r.recovered]
  /\ UNCHANGED mkm_vars

\* a read of blocks that were written without encryption
LogRead ==
  /\ pg.pc = "log_plain"
  /\ LET r == decrypt_log(pg.ctx, pg.src)
     IN pg' = [pg EXCEPT !.pc = "log_read", !.buf = r.src, !.err = r.err,
                         !.dctx = r.ctx, !.asked = r.asked,
                         !.recovered = r.recovered]
  /\ UNCHANGED mkm_vars

\* the I/O is complete
LogDone ==
  /\ pg.pc \in {"log_encrypted", "log_decrypted", "log_read"}
  /\ pg' = PgIdle
  /\ UNCHANGED mkm_vars

(* ------------------------------ restart ------------------------------- *)
\* what a restart leaves of a call: the encryption info that a finished
\* fill_encryption_info handed to its caller is on page 0 of the
\* tablespace and is there to be decoded again; everything else is lost
OnDisk(r) ==
  IF r.pc = "done" /\ r.blob # <<>>
  THEN [Idle EXCEPT !.pc = "done", !.op = "fill", !.ret = "true",
                    !.blob = r.blob, !.in_key = r.in_key, !.in_iv = r.in_iv,
                    !.is_boot = r.is_boot, !.encrypt_key = r.encrypt_key]
  ELSE Idle

\* the server restarts: lines 68 and 71, the static initialisers of
\* s_master_key_id and s_uuid; the keyring and the server uuid stay
Restart ==
  /\ s_master_key_id' = DEFAULT_MASTER_KEY_ID
  /\ s_uuid' = EmptyUuid
  /\ mutex' = NoThread
  /\ th' = [t \in Threads |-> OnDisk(th[t])]
  /\ pre' = [id |-> DEFAULT_MASTER_KEY_ID, uuid |-> EmptyUuid]
  /\ checked' = FALSE
  /\ UNCHANGED <<server_uuid, keyring, keyring_up, recv_on, n_rotated, pg>>

(* --------------------------- specifications --------------------------- *)
\* every thread makes one call into the master key manager or the codec;
\* the calls interleave step by step
Next ==
  \E t \in Threads :
     \/ GetBegin(t)
     \/ get_master_key(t)
     \/ Rotate(t)
     \/ DecodeBegin(t, IntactBlobs(keyring) \cup {UnknownMagic})
     \/ decode_encryption_info(t)

Spec == Init /\ [][Next]_vars

\* one thread makes every call, one after the other, while the keyring
\* comes and goes and recovery ends
NextSeq ==
  \/ GetBegin(1)
  \/ get_master_key(1)
  \/ Rotate(1)
  \/ fill_encryption_info(1)
  \/ DecodeBegin(1, IntactBlobs(keyring) \cup DamagedBlobs(keyring)
                       \cup {UnknownMagic})
  \/ DecodeOwn(1)
  \/ decode_encryption_info(1)
  \/ Finish(1)
  \/ KeyringToggle
  \/ RecoveryEnds

SpecSeq == Init /\ [][NextSeq]_vars

\* every thread calls get_master_key(&id, &key) once, all from the start
NextGmk == \E t \in Threads : GetBegin(t) \/ get_master_key(t)

SpecGmk == Init /\ [][NextGmk]_vars

\* one thread rotates the master key again and again
NextRot == Rotate(1) \/ Finish(1) \/ KeyringToggle

SpecRot == Init /\ [][NextRot]_vars

\* one caller decodes blobs read from disk and gets or creates the master
\* key; the keyring comes and goes, recovery ends
NextDec ==
  \/ DecodeBegin(1, IntactBlobs(keyring) \cup DamagedBlobs(keyring)
                      \cup {UnknownMagic})
  \/ decode_encryption_info(1)
  \/ GetBegin(1)
  \/ get_master_key(1)
  \/ Finish(1)
  \/ KeyringToggle
  \/ RecoveryEnds

SpecDec == Init /\ [][NextDec]_vars

\* the I/O layer writes and reads pages; the master key manager is not
\* in use
InitPage ==
  /\ Init
  /\ server_uuid = EmptyUuid
  /\ keyring = <<>>
  /\ ~recv_on

NextPage == PageBegin \/ PageEncrypt \/ PageDecrypt \/ PageRead \/ PageDone

SpecPage == InitPage /\ [][NextPage]_vars

\* the I/O layer writes and reads log buffers
NextLog == LogBegin \/ LogEncrypt \/ LogDecrypt \/ LogRead \/ LogDone

SpecLog == InitPage /\ [][NextLog]_vars

\* a first start with an empty keyring: one thread rotates the master key,
\* the other writes a tablespace's encryption info and reads it back
\* later; the keyring comes and goes and the server restarts
InitRestart ==
  /\ Init
  /\ keyring = <<>>
  /\ ~recv_on

NextRestart ==
  \/ Rotate(1)
  \/ Finish(1)
  \/ fill_encryption_info(NThreads)
  \/ get_master_key(NThreads)
  \/ DecodeOwn(NThreads)
  \/ decode_encryption_info(NThreads)
  \/ KeyringToggle
  \/ Restart

SpecRestart == InitRestart /\ [][NextRestart]_vars

\* the tablespaces of a 5.7.11 server are opened: one caller decodes V1
\* blobs, intact and damaged, and gets or creates the master key
V1Blobs(kr) ==
  {b \in IntactBlobs(kr) \cup DamagedBlobs(kr) : b[1] = KEY_MAGIC_V1}

NextV1 ==
  \/ DecodeBegin(1, V1Blobs(keyring))
  \/ decode_encryption_info(1)
  \/ GetBegin(1)
  \/ get_master_key(1)
  \/ Finish(1)

SpecV1 == Init /\ [][NextV1]_vars

\* one caller probes the keyring with check_keyring() and gets or
\* creates the master key; the keyring comes and goes
NextChk ==
  \/ CheckBegin(1)
  \/ check_keyring(1)
  \/ GetBegin(1)
  \/ get_master_key(1)
  \/ Finish(1)
  \/ KeyringToggle

SpecChk == Init /\ [][NextChk]_vars

\* one caller writes encryption info, at bootstrap and later, and reads
\* it back; the keyring comes and goes and the server restarts
NextFill ==
  \/ fill_encryption_info(1)
  \/ get_master_key(1)
  \/ DecodeOwn(1)
  \/ decode_encryption_info(1)
  \/ Finish(1)
  \/ KeyringToggle
  \/ Restart

SpecFill == Init /\ [][NextFill]_vars

\* one thread writes encryption info while another rotates the master
\* key and decodes blobs read from disk
NextConc ==
  \/ fill_encryption_info(1)
  \/ get_master_key(1)
  \/ Rotate(NThreads)
  \/ DecodeBegin(NThreads, IntactBlobs(keyring))
  \/ decode_encryption_info(NThreads)
  \/ Finish(NThreads)

SpecConc == Init /\ [][NextConc]_vars

(* ------------------------------- claims -------------------------------- *)
\* the larger of two ids
Max(a, b) == IF a >= b THEN a ELSE b

\* C2: with a working keyring and a non-empty server uuid, decode
\* (decrypt_key = true) of the blob that fill_encryption_info(k, iv,
\* is_boot = false, encrypt_key = true) has just produced succeeds and
\* returns exactly (k, iv), whatever the current master key id is.
C2_InfoRoundTrip ==
  \A t \in Threads :
    (/\ th[t].op = "decode" /\ th[t].src = "own" /\ th[t].pc = "done"
     /\ th[t].decrypt_key /\ th[t].encrypt_key /\ ~th[t].is_boot
     /\ th[t].kr_ok /\ server_uuid # EmptyUuid)
    => /\ th[t].ret = "true"
       /\ th[t].key = th[t].in_key
       /\ th[t].iv = th[t].in_iv

\* C3: in every interleaving of get_master_key, create_master_key and
\* decode_encryption_info, s_master_key_id never decreases from one state
\* to the next.
C3_IdNeverDecreases == [][s_master_key_id' >= s_master_key_id]_vars

\* C4 as stated: after k >= 1 successful rotations from id 0 and nothing
\* else, s_master_key_id = k + 1.
C4_IdIsRotationsPlusOne ==
  (th[1].pc = "done" /\ th[1].ret = "true")
  => s_master_key_id = n_rotated + 1

\* C4 amended: between rotations, after k successful rotations from id 0
\* and nothing else, s_master_key_id = k.
C4_IdIsRotations ==
  (th[1].pc \in {"idle", "done"}) => s_master_key_id = n_rotated

\* C4 witness: the last of MaxKeyId successful rotations has returned
C4_Witness ==
  th[1].pc = "done" /\ th[1].ret = "true" /\ n_rotated = MaxKeyId

\* C5: every step that changes s_master_key_id or s_uuid is taken by a
\* thread that holds master_key_id_mutex.
C5_WritesUnderMutex ==
  [][\A t \in Threads :
       (th'[t] # th[t]
        /\ (s_master_key_id' # s_master_key_id \/ s_uuid' # s_uuid))
       => mutex = t]_vars

\* C6: when all threads have called get_master_key(&id, &key) from id 0
\* with a working keyring, exactly one of them advanced the id, the id is
\* 1, every caller got id 1 and the key stored under
\* <prefix>-<server_uuid>-1, and s_uuid is the server uuid.
C6_OneCreator ==
  /\ s_master_key_id \in {0, 1}
  /\ Cardinality({t \in Threads : th[t].why = "created"}) <= 1
  /\ \A t \in Threads :
       th[t].pc = "done"
       => /\ s_master_key_id = 1
          /\ s_uuid = server_uuid
          /\ Cardinality({u \in Threads : th[u].why = "created"}) = 1
          /\ th[t].ret = "true"
          /\ th[t].master_key_id = 1
          /\ UuidKeyName(server_uuid, 1) \in DOMAIN keyring
          /\ th[t].master_key = keyring[UuidKeyName(server_uuid, 1)]

\* C6 witness: every thread's call has returned
C6_Witness == \A t \in Threads : th[t].pc = "done" /\ th[t].op = "get"

\* C7: a decode whose stored CRC differs from the CRC of the unwrapped
\* {key, iv} returns failure, leaves the caller's key and iv as they were,
\* and leaves s_master_key_id and s_uuid as they were when it began.
C7_CrcMismatch ==
  \A t \in Threads :
    (th[t].op = "decode" /\ th[t].why = "crc")
    => /\ th[t].pc = "done"
       /\ th[t].ret = "false"
       /\ th[t].key = Untouched
       /\ th[t].iv = Untouched
       /\ s_master_key_id = pre.id
       /\ s_uuid = pre.uuid

\* C7 witness: a decode with decrypt_key, in a process whose id has
\* advanced, has met a CRC mismatch
C7_Witness ==
  /\ th[1].op = "decode" /\ th[1].why = "crc" /\ th[1].decrypt_key
  /\ s_master_key_id > DEFAULT_MASTER_KEY_ID

\* C8: when a decode has returned, s_master_key_id is max(value when the
\* decode began, id m of the blob) if it succeeded with decrypt_key, and
\* the value when the decode began otherwise.
C8_DecodeCatchUp ==
  \A t \in Threads :
    (th[t].op = "decode" /\ th[t].pc = "done")
    => s_master_key_id =
         IF th[t].ret = "true" /\ th[t].decrypt_key
         THEN Max(pre.id, th[t].master_key_id)
         ELSE pre.id

\* C8 witness: a fresh process (id 0) has decoded a blob with id MaxKeyId
C8_Witness ==
  /\ th[1].op = "decode" /\ th[1].pc = "done" /\ th[1].ret = "true"
  /\ th[1].decrypt_key /\ pre.id = DEFAULT_MASTER_KEY_ID
  /\ th[1].master_key_id = MaxKeyId /\ s_master_key_id = MaxKeyId

\* C9: the step in which a decode meets a magic that is none of V1, V2,
\* V3 returns success when recovery is on and failure when it is off,
\* and in both cases leaves the caller's key and iv, the keyring,
\* s_master_key_id and s_uuid as they were.
C9_UnknownMagic ==
  [][\A t \in Threads :
       (th[t].pc = "idle" /\ th'[t].why = "magic")
       => /\ th'[t].pc = "done"
          /\ th'[t].ret = (IF recv_on THEN "true" ELSE "false")
          /\ th'[t].key = Untouched
          /\ th'[t].iv = Untouched
          /\ keyring' = keyring
          /\ s_master_key_id' = s_master_key_id
          /\ s_uuid' = s_uuid]_vars

\* C9 witness: during recovery, in a process whose id has advanced, a
\* decode of a page 0 that was never written has returned success
C9_Witness ==
  /\ th[1].op = "decode" /\ th[1].why = "magic" /\ th[1].ret = "true"
  /\ recv_on /\ s_master_key_id > DEFAULT_MASTER_KEY_ID

\* C1: for every plaintext page P and every context C with mode AES or
\* KEYRING, decrypt with C applied to the output of encrypt with C yields a
\* buffer byte-for-byte equal to P.
C1_PageRoundTrip ==
  (pg.pc = "decrypted" /\ pg.dctx = pg.ctx) => pg.buf = pg.P

\* C1, the part that Encryption::encrypt checks itself under
\* UNIV_ENCRYPT_DEBUG: decrypt succeeds and the bytes from FIL_PAGE_DATA on
\* are those of P.
C1_DataRoundTrip ==
  (pg.pc = "decrypted" /\ pg.dctx = pg.ctx)
    => /\ pg.err = "DB_SUCCESS"
       /\ \A i \in FIL_PAGE_DATA + 1 .. pg.src_len : pg.buf[i] = pg.P[i]

\* C10: after a successful page encrypt the destination's FIL_PAGE_TYPE is
\* COMPRESSED_AND_ENCRYPTED for a COMPRESSED source, ENCRYPTED_RTREE for an
\* RTREE source and ENCRYPTED otherwise; after decrypt with the same context
\* FIL_PAGE_TYPE is the type the page had before encryption.
C10_PageTypeDiscipline ==
  /\ (pg.pc \in {"encrypted", "decrypted"} /\ pg.ret = "dst")
       => At(pg.dst, FIL_PAGE_TYPE) =
            IF At(pg.P, FIL_PAGE_TYPE) = FIL_PAGE_COMPRESSED
            THEN FIL_PAGE_COMPRESSED_AND_ENCRYPTED
            ELSE IF At(pg.P, FIL_PAGE_TYPE) = FIL_PAGE_RTREE
            THEN FIL_PAGE_ENCRYPTED_RTREE
            ELSE FIL_PAGE_ENCRYPTED
  /\ (pg.pc = "decrypted" /\ pg.dctx = pg.ctx)
       => At(pg.buf, FIL_PAGE_TYPE) = At(pg.P, FIL_PAGE_TYPE)

\* C10 happens: a KEYRING context has encrypted and decrypted an index page
C10_Witness ==
  /\ pg.pc = "decrypted"
  /\ pg.dctx = pg.ctx
  /\ pg.ctx.m_type = "KEYRING"
  /\ At(pg.P, FIL_PAGE_TYPE) = FIL_PAGE_INDEX
  /\ At(pg.dst, FIL_PAGE_TYPE) = FIL_PAGE_ENCRYPTED
  /\ At(pg.buf, FIL_PAGE_TYPE) = FIL_PAGE_INDEX

\* C11 as stated: after every successful page encrypt in KEYRING mode the
\* FIL_PAGE_ENCRYPTION_KEY_VERSION field of the destination page is
\* non-zero, for plain, zip-compressed and FIL_PAGE_COMPRESSED sources.
C11_KeyVersionNonZero ==
  (/\ pg.pc \in {"encrypted", "decrypted"} /\ pg.ret = "dst"
   /\ pg.ctx.m_type = "KEYRING")
    => At(pg.dst, FIL_PAGE_ENCRYPTION_KEY_VERSION) # 0

\* C11, amended: after every successful page encrypt in KEYRING mode the
\* destination carries a non-zero key version: in the header field
\* FIL_PAGE_ENCRYPTION_KEY_VERSION for plain and zip-compressed sources, in
\* the 4 bytes at FIL_PAGE_DATA + 4 for FIL_PAGE_COMPRESSED sources.
C11_KeyVersionStamped ==
  (/\ pg.pc \in {"encrypted", "decrypted"} /\ pg.ret = "dst"
   /\ pg.ctx.m_type = "KEYRING")
    => IF At(pg.P, FIL_PAGE_TYPE) = FIL_PAGE_COMPRESSED
       THEN At(pg.dst, FIL_PAGE_DATA + CHECKSUM_LEN) # 0
       ELSE At(pg.dst, FIL_PAGE_ENCRYPTION_KEY_VERSION) # 0

\* C11 happens: a KEYRING context has encrypted a page-compressed page
\* whose header never held a key version, and the key version is behind the
\* header
C11_Witness ==
  /\ pg.pc = "encrypted"
  /\ pg.ret = "dst"
  /\ pg.ctx.m_type = "KEYRING"
  /\ At(pg.P, FIL_PAGE_TYPE) = FIL_PAGE_COMPRESSED
  /\ At(pg.P, FIL_PAGE_ENCRYPTION_KEY_VERSION) = 0
  /\ At(pg.dst, FIL_PAGE_DATA + CHECKSUM_LEN) = pg.ctx.m_key_version

\* C12: decrypt on a page whose FIL_PAGE_TYPE is none of FIL_PAGE_ENCRYPTED,
\* FIL_PAGE_ENCRYPTED_RTREE and FIL_PAGE_COMPRESSED_AND_ENCRYPTED returns
\* DB_SUCCESS and leaves every byte of the page unchanged, whatever the
\* mode of the context (NONE, AES or KEYRING).
C12_PlainPagePassesThrough ==
  (/\ pg.pc = "read"
   /\ At(pg.src, FIL_PAGE_TYPE) \notin {FIL_PAGE_ENCRYPTED,
                                        FIL_PAGE_ENCRYPTED_RTREE,
                                        FIL_PAGE_COMPRESSED_AND_ENCRYPTED})
    => /\ pg.err = "DB_SUCCESS"
       /\ pg.buf = pg.src

\* C12 happens: a context with a key has read a page-compressed page that
\* was written without encryption
C12_Witness ==
  /\ pg.pc = "read"
  /\ pg.ctx.m_type = "AES"
  /\ At(pg.src, FIL_PAGE_TYPE) = FIL_PAGE_COMPRESSED
  /\ pg.err = "DB_SUCCESS"
  /\ pg.buf = pg.P

\* C13: decrypt on a page of an encrypted type while the context's mode is
\* NONE returns DB_IO_DECRYPT_FAIL and leaves the page bytes unchanged.
C13_NoKeyFails ==
  (/\ pg.pc = "decrypted"
   /\ pg.dctx.m_type = "NONE"
   /\ At(pg.dst, FIL_PAGE_TYPE) \in {FIL_PAGE_ENCRYPTED,
                                     FIL_PAGE_ENCRYPTED_RTREE,
                                     FIL_PAGE_COMPRESSED_AND_ENCRYPTED})
    => /\ pg.err = "DB_IO_DECRYPT_FAIL"
       /\ pg.buf = pg.dst

\* C13 happens: a context without a key has read an encrypted R-tree page
C13_Witness ==
  /\ pg.pc = "decrypted"
  /\ pg.dctx.m_type = "NONE"
  /\ At(pg.dst, FIL_PAGE_TYPE) = FIL_PAGE_ENCRYPTED_RTREE
  /\ pg.err = "DB_IO_DECRYPT_FAIL"
  /\ pg.buf = pg.dst

\* C14: every successful encrypt call reports an output length equal to the
\* input length: Encryption::encrypt sets *dst_len == src_len for pages and
\* Encryption::encrypt_log sets *dst_len == src_len for log buffers.
C14_LengthReported ==
  /\ (pg.pc \in {"encrypted", "decrypted"} /\ pg.ret = "dst")
       => pg.dst_len = pg.src_len
  /\ (pg.pc \in {"log_encrypted", "log_decrypted"} /\ pg.ret = "dst")
       => pg.dst_len = pg.src_len

\* the headers cells of dst that a page encrypt may leave different from
\* those of the source, as C15 lists them
C15_Excepted ==
  {FIL_PAGE_TYPE}
  \cup (IF At(pg.P, FIL_PAGE_TYPE) \notin {FIL_PAGE_COMPRESSED, FIL_PAGE_RTREE}
        THEN {FIL_PAGE_ORIGINAL_TYPE_V1} ELSE {})
  \cup (IF pg.ctx.m_type = "KEYRING"
        THEN {FIL_PAGE_ENCRYPTION_KEY_VERSION} ELSE {})

\* C15 as stated: after a successful page encrypt every header byte of dst
\* equals the corresponding source byte, except FIL_PAGE_TYPE,
\* FIL_PAGE_ORIGINAL_TYPE_V1 for sources that are neither compressed nor
\* R-tree pages, and in KEYRING mode the key version field.
C15_HeaderPreserved ==
  (pg.pc \in {"encrypted", "decrypted"} /\ pg.ret = "dst")
    => \A f \in (0 .. FIL_PAGE_DATA - 1) \ C15_Excepted :
         At(pg.dst, f) = At(pg.P, f)

\* C15, amended: the same, with one more exception: in KEYRING mode during
\* the MASTER_KEY_TO_KEYRING rotation, on a zip-compressed page, the
\* FIL_PAGE_ZIP_KEYRING_ENCRYPTION_MAGIC field.
C15_HeaderPreservedButMagic ==
  (pg.pc \in {"encrypted", "decrypted"} /\ pg.ret = "dst")
    => \A f \in (0 .. FIL_PAGE_DATA - 1)
                 \ (C15_Excepted
                    \cup IF /\ pg.ctx.m_type = "KEYRING"
                            /\ pg.ctx.m_encryption_rotation
                                 = "MASTER_KEY_TO_KEYRING"
                            /\ pg.io.zip
                         THEN {FIL_PAGE_ZIP_KEYRING_ENCRYPTION_MAGIC}
                         ELSE {}) :
         At(pg.dst, f) = At(pg.P, f)

\* C15 happens: a KEYRING context in rotation has encrypted a zip page; the
\* magic is in the header, the checksum and the LSN are those of the source
C15_Witness ==
  /\ pg.pc = "encrypted"
  /\ pg.ret = "dst"
  /\ pg.ctx.m_type = "KEYRING"
  /\ pg.ctx.m_encryption_rotation = "MASTER_KEY_TO_KEYRING"
  /\ pg.io.zip
  /\ At(pg.dst, FIL_PAGE_ZIP_KEYRING_ENCRYPTION_MAGIC)
       # At(pg.P, FIL_PAGE_ZIP_KEYRING_ENCRYPTION_MAGIC)
  /\ At(pg.dst, FIL_PAGE_SPACE_OR_CHKSUM) = At(pg.P, FIL_PAGE_SPACE_OR_CHKSUM)
  /\ At(pg.dst, FIL_PAGE_LSN) = At(pg.P, FIL_PAGE_LSN)
  /\ pg.dst # pg.P

C17_VersionRecovered ==
  (pg.pc = "log_decrypted" /\ pg.ctx.m_type = "KEYRING")
    => \A i \in 1 .. Len(pg.recovered) :
         pg.recovered[i] = pg.ctx.m_key_version

\* where crc + v fits in the checksum field of every block, the version
\* is recovered
C17_VersionRecoveredNoWrap ==
  (/\ pg.pc = "log_decrypted" /\ pg.ctx.m_type = "KEYRING"
   /\ \A i \in 1 .. Len(pg.dst) :
        log_block_calc_checksum_crc32(pg.dst[i]) + pg.ctx.m_key_version
          < UINT32_MOD)
    => /\ Len(pg.recovered) = Len(pg.dst)
       /\ \A i \in 1 .. Len(pg.recovered) :
            pg.recovered[i] = pg.ctx.m_key_version

\* C18: when decrypt_log_block meets a KEYRING block whose version v is not
\* the version the context has loaded, and v is not the no-version marker,
\* it obtains version v from the redo log key manager and decrypts with
\* that key, leaving the context's key_version == v; when v is the loaded
\* version or the no-version marker, the key manager is not called and the
\* context key is unchanged.
C18_KeySwap ==
  (pg.pc = "log_decrypted" /\ pg.ctx.m_type = "KEYRING")
    => IF /\ pg.ctx.m_key_version # pg.dctx0.m_key_version
          /\ pg.ctx.m_key_version # REDO_LOG_ENCRYPT_NO_VERSION
       THEN /\ pg.asked = <<pg.ctx.m_key_version>>
            /\ pg.dctx.m_key_version = pg.ctx.m_key_version
            /\ pg.dctx.m_key = RedoLogKey(pg.ctx.m_key_version)
            /\ pg.err = "DB_SUCCESS"
       ELSE /\ pg.asked = <<>>
            /\ pg.dctx.m_key = pg.dctx0.m_key
            /\ pg.dctx.m_key_version = pg.dctx0.m_key_version

\* where crc + v fits in the checksum field of every block, the key is
\* swapped as C18 says
C18_KeySwapNoWrap ==
  (/\ pg.pc = "log_decrypted"
   /\ \A i \in 1 .. Len(pg.dst) :
        log_block_calc_checksum_crc32(pg.dst[i]) + pg.ctx.m_key_version
          < UINT32_MOD)
    => C18_KeySwap

\* C19: for every log block B and mode AES or KEYRING, decrypt_log applied
\* to the blocks that encrypt_log made of B restores every byte of B:
\* header with the encrypted bit cleared, payload and trailer checksum, as
\* the self-check of encrypt_log_block asserts; blocks whose encrypted bit
\* is clear pass through decrypt_log unchanged.
C19_LogRoundTrip ==
  /\ pg.pc = "log_decrypted" => (pg.err = "DB_SUCCESS" /\ pg.buf = pg.B)
  /\ pg.pc = "log_read" => (pg.err = "DB_SUCCESS" /\ pg.buf = pg.src)

\* the round trip of the blocks whose trailer is their CRC32, and of every
\* block in AES mode
C19_LogRoundTripCrc32 ==
  /\ (/\ pg.pc = "log_decrypted"
      /\ \/ pg.ctx.m_type = "AES"
         \/ \A i \in 1 .. Len(pg.B) :
              log_block_get_checksum(pg.B[i])
                = log_block_calc_checksum_crc32(pg.B[i]))
       => (pg.err = "DB_SUCCESS" /\ pg.buf = pg.B)
  /\ pg.pc = "log_read" => (pg.err = "DB_SUCCESS" /\ pg.buf = pg.src)

\* C20: the page and log crypt operations (encrypt, decrypt, encrypt_log,
\* decrypt_log) treat the context as read-only: no call changes a field of
\* it (key, key_version, checksum, iv, mode).
C20_ContextReadOnly ==
  /\ pg.pc \in {"encrypted", "decrypted", "read"} => pg.ctx = pg.ctx0
  /\ pg.pc = "log_encrypted" => pg.ctx = pg.ctx0
  /\ pg.pc \in {"log_decrypted", "log_read"} => pg.dctx = pg.dctx0

\* C21: a rotation changes s_master_key_id and s_uuid only after the fetch
\* in create_master_key has confirmed the new key: every step of a
\* rotation that has no confirmed key in hand leaves both as they are, so
\* a rotation whose fetch fails ends with the values it began with.
C21_FailedRotationAtomic ==
  [][\A t \in Threads :
       (th[t].op = "rotate" /\ th'[t] # th[t] /\ th[t].master_key = nullptr)
       => /\ s_master_key_id' = s_master_key_id
          /\ s_uuid' = s_uuid]_vars

\* C22: the encryption info that fill_encryption_info wrote decodes to the
\* (key, iv) it was written for after any number of later rotations,
\* get-or-create calls and restarts, whenever the keyring answers; and no
\* step removes a master key from the keyring or replaces its material.
C22_BlobSurvivesRotation ==
  \A t \in Threads :
    (/\ th[t].op = "decode" /\ th[t].src = "own" /\ th[t].pc = "done"
     /\ th[t].decrypt_key /\ th[t].encrypt_key /\ th[t].kr_ok)
    => /\ th[t].ret = "true"
       /\ th[t].key = th[t].in_key
       /\ th[t].iv = th[t].in_iv

\* C22, the reason given: every key of the keyring stays, with its material
C22_KeyringOnlyGrows ==
  [][\A n \in DOMAIN keyring :
       n \in DOMAIN keyring' /\ keyring'[n] = keyring[n]]_vars

\* C22 witness: a blob written under master key id MaxKeyId has been
\* decoded after a restart (the id the decode met was below the blob's)
\* and a successful rotation after that restart
C22_Witness ==
  /\ th[NThreads].op = "decode" /\ th[NThreads].src = "own"
  /\ th[NThreads].pc = "done" /\ th[NThreads].ret = "true"
  /\ th[NThreads].decrypt_key /\ th[NThreads].encrypt_key
  /\ th[NThreads].master_key_id = MaxKeyId
  /\ pre.id < MaxKeyId /\ pre.id > DEFAULT_MASTER_KEY_ID
  /\ th[1].op = "rotate" /\ th[1].pc = "done" /\ th[1].ret = "true"

\* C23: a V1 blob, with the id in 4 bytes or in 8 bytes (a zero word after
\* the id), whose master key the keyring holds under the server_id name
\* decodes to the (key, iv) it was written for, whatever the wrapped
\* content is, a wrapped region that begins with a zero word included.
C23_V1BothIdForms ==
  \A id \in 1 .. MaxKeyId, pad \in BOOLEAN, kiv \in Cells \X Cells,
     stack \in Uuids :
    LegacyKeyName(id) \in DOMAIN keyring
    => LET b == OldInfo(KEY_MAGIC_V1, id, pad, EmptyUuid,
                        keyring[LegacyKeyName(id)], kiv, FALSE)
           o == DecodeLocal(b, TRUE, stack, keyring, TRUE, recv_on)
       IN /\ o.ret = "go_on"
          /\ o.key = kiv[1]
          /\ o.iv = kiv[2]
          /\ o.master_key_id = id

\* C23 apart from that case: the same for every V1 blob but the one with a
\* 4-byte id whose wrapped region begins with a zero word
C23_V1NoLeadingZero ==
  \A id \in 1 .. MaxKeyId, pad \in BOOLEAN, kiv \in Cells \X Cells,
     stack \in Uuids :
    LET mk == keyring[LegacyKeyName(id)]
        b == OldInfo(KEY_MAGIC_V1, id, pad, EmptyUuid, mk, kiv, FALSE)
        o == DecodeLocal(b, TRUE, stack, keyring, TRUE, recv_on)
    IN (/\ LegacyKeyName(id) \in DOMAIN keyring
        /\ (pad \/ my_aes_encrypt_ecb(kiv, mk).dest[1] # 0))
       => /\ o.ret = "go_on"
          /\ o.key = kiv[1]
          /\ o.iv = kiv[2]
          /\ o.master_key_id = id

\* C24: when a decode of a V1 blob has returned success, s_uuid is what it
\* was when the decode began, whether or not the blob's master key id is
\* above the s_master_key_id the decode met.
C24_V1KeepsUuid ==
  (th[1].op = "decode" /\ th[1].pc = "done" /\ th[1].ret = "true")
  => s_uuid = pre.uuid

\* C25: when check_keyring() has returned from a call made at
\* s_master_key_id = 0, it returned true only if that call probed the
\* keyring and its fetch of the dummy key succeeded, and the dummy key is
\* not in the keyring if the keyring answered throughout the call; when it
\* has returned from a call made at a non-zero id, it returned true exactly
\* if get_master_key handed back the current master key.
C25_EveryCallProbes ==
  (th[1].op = "check" /\ th[1].pc = "done")
  => IF s_master_key_id = DEFAULT_MASTER_KEY_ID
     THEN /\ th[1].ret = "true" => th[1].why = "probed"
          /\ th[1].kr_ok => DummyKeyName \notin DOMAIN keyring
     ELSE th[1].ret = "true" <=> th[1].master_key # nullptr

\* C26: every step of a fill_encryption_info(.., encrypt_key = true) made
\* with is_boot = true or with an empty server uuid, and of the decode of
\* the blob it wrote, leaves the keyring and s_master_key_id as they are
\* (a restart is no step of either);
\* the fill succeeds and records master key id 0, and the decode with
\* decrypt_key succeeds and returns the (key, iv) that was written, whether
\* or not the keyring answers.
C26_DefaultKeyPath ==
  [][\A t \in Threads :
       LET r == th'[t]
       IN (/\ r # th[t]
           /\ (th[t].pc = "done" => (th[t].op = "fill" /\ r.op = "decode"))
           /\ r.encrypt_key
           /\ (r.is_boot \/ server_uuid = EmptyUuid))
          => /\ keyring' = keyring
             /\ s_master_key_id' = s_master_key_id
             /\ (r.op = "fill" /\ r.pc = "done")
                => (r.ret = "true" /\ r.blob[MAGIC_SIZE + 1] = DEFAULT_MASTER_KEY_ID)
             /\ (r.op = "decode" /\ r.pc = "done" /\ r.decrypt_key)
                => (r.ret = "true" /\ r.key = r.in_key /\ r.iv = r.in_iv)]_vars

\* C26 witness: in a process whose master key id has advanced, a blob
\* written at bootstrap has been decoded while the keyring did not answer
C26_Witness ==
  /\ th[1].op = "decode" /\ th[1].pc = "done" /\ th[1].ret = "true"
  /\ th[1].decrypt_key /\ th[1].encrypt_key /\ th[1].is_boot
  /\ th[1].key = th[1].in_key /\ th[1].iv = th[1].in_iv
  /\ ~th[1].kr_ok /\ ~keyring_up
  /\ s_master_key_id > DEFAULT_MASTER_KEY_ID

C27_SameRegionAdmitted ==
  (/\ pg.pc = "decrypted" /\ pg.dctx = pg.ctx
   /\ (pg.ctx.m_type = "KEYRING"
       => can_page_be_keyring_encrypted(At(pg.P, FIL_PAGE_TYPE))))
  => LET e == EncryptRegion(pg.ctx0, pg.io, pg.P, pg.src_len)
         d == DecryptRegion(pg.dctx, pg.io, pg.dst, pg.dst_len)
     IN /\ d.data_len = e.data_len
        /\ d.HEADER_SIZE = e.DST_HEADER_SIZE

\* C28: whenever encrypt_low has run on a page that passes its check
\* src_enc_len <= src_len, DST_HEADER_SIZE + data_len <= src_len: no
\* ciphertext was written past dst + src_len, and the length of the padding
\* memset, src_len - DST_HEADER_SIZE - data_len, did not underflow.
C28_WritesInsideDst ==
  (pg.pc \in {"encrypted", "crashed"})
  => LET e == EncryptRegion(pg.ctx0, pg.io, pg.P, pg.src_len)
     IN e.src_enc_len <= pg.src_len
        => /\ e.DST_HEADER_SIZE + e.data_len <= pg.src_len
           /\ ~pg.oob
           /\ ~pg.crash

\* C28 apart from KEYRING mode on FIL_PAGE_COMPRESSED pages
C28_WritesInsideDstNoExtra ==
  (/\ pg.pc \in {"encrypted", "crashed"}
   /\ ~(pg.ctx.m_type = "KEYRING"
        /\ At(pg.P, FIL_PAGE_TYPE) = FIL_PAGE_COMPRESSED))
  => LET e == EncryptRegion(pg.ctx0, pg.io, pg.P, pg.src_len)
     IN e.src_enc_len <= pg.src_len
        => /\ e.DST_HEADER_SIZE + e.data_len <= pg.src_len
           /\ ~pg.oob
           /\ ~pg.crash

\* C29: whenever no call is running and s_master_key_id is not 0, the
\* keyring holds a master key under <prefix>-<s_uuid>-<s_master_key_id> or
\* under <prefix>-<server_id>-<s_master_key_id>, the two names that
\* get_master_key(&id, &key) fetches for the current id.
C29_CurrentKeyExists ==
  (/\ \A t \in Threads : th[t].pc \in {"idle", "done"}
   /\ s_master_key_id # DEFAULT_MASTER_KEY_ID)
  => \/ UuidKeyName(s_uuid, s_master_key_id) \in DOMAIN keyring
     \/ LegacyKeyName(s_master_key_id) \in DOMAIN keyring

\* C30: when fill_encryption_info(.., is_boot = false, encrypt_key = true)
\* has written a blob under a master key from the keyring, in whatever way
\* its steps interleaved with a rotation and with decodes of another
\* thread, the keyring holds under <prefix>-<uuid>-<id>, for the id and the
\* uuid written into the blob, exactly the master key that wrapped the
\* tablespace key, the key a later decode of the blob fetches.
C30_BlobNamesItsKey ==
  \A t \in Threads :
    (/\ th[t].op = "fill" /\ th[t].pc = "done" /\ th[t].ret = "true"
     /\ th[t].encrypt_key /\ ~th[t].is_boot /\ server_uuid # EmptyUuid)
    => LET b == th[t].blob
           id == b[MAGIC_SIZE + 1]
           uuid == b[MAGIC_SIZE + SIZEOF_UINT32 + 1]
       IN /\ id = th[t].master_key_id
          /\ get_master_key_by_id(keyring, TRUE, id, TRUE, uuid)
               = th[t].master_key

====
